---- MODULE Spec2Model ----
(***************************************************************************)
(* A model of apollo::hdmap::Path and PathApproximation                    *)
(* (modules/map/pnc_map/path.cc): construction of the arclength, sample,   *)
(* width and simplification tables, and the read-only queries over them.   *)
(*                                                                         *)
(* Numbers.  A C++ double is modelled as a fixed-point number.  Lengths,   *)
(* coordinates, arclengths and widths are integers counting ticks, FP      *)
(* ticks to the metre; squared lengths count ticks^2; the components of a  *)
(* unit vector are integers at scale UNIT.  Division and square root round *)
(* to the nearest representable value, as IEEE arithmetic does.  Tables    *)
(* are functions over 0..n-1, so that indices read as in the source.       *)
(***************************************************************************)
EXTENDS Integers, Sequences, FiniteSets, TLC

\* const double kSampleDistance = 0.25, in ticks
kSampleDistance == 256
\* ticks to the metre
FP == 4 * kSampleDistance
\* scale of unit-vector components
UNIT == 16 * FP
\* common::math::kMathEpsilon = 1e-10, which is below one tick
kMathEpsilon == 0
\* std::numeric_limits<double>::infinity()
Infinity == 2000000000
\* the null lane pointer of a default LaneSegment / LaneWaypoint
NullLane == 0

Abs(a) == IF a < 0 THEN -a ELSE a
Max(a, b) == IF a >= b THEN a ELSE b
Min(a, b) == IF a <= b THEN a ELSE b
Sqr(a) == a * a

\* a / b for b > 0, rounded to nearest
RDiv(a, b) ==
  IF a >= 0 THEN (2 * a + b) \div (2 * b) ELSE -((2 * (-a) + b) \div (2 * b))

\* static_cast<int>(a / b) for b > 0: truncation toward zero
TruncDiv(a, b) == IF a >= 0 THEN a \div b ELSE -((-a) \div b)

SqrtCap == 181 * 256
RECURSIVE SqrtSearch(_, _, _)
SqrtSearch(n, lo, hi) ==
  IF lo >= hi THEN lo
  ELSE LET mid == (lo + hi + 1) \div 2
       IN  IF mid * mid <= n THEN SqrtSearch(n, mid, hi)
           ELSE SqrtSearch(n, lo, mid - 1)

\* the rounding of sqrt, given the floor r of the root
SqrtRound(n, r) == IF n - r * r > r THEN r + 1 ELSE r

\* sqrt of a squared length (ticks^2), in ticks, rounded to nearest
Sqrt(n) == SqrtRound(n, SqrtSearch(n, 0, SqrtCap))

Hypot(x, y) == Sqrt(x * x + y * y)

\* tables: functions over 0..n-1
Size(f) == Cardinality(DOMAIN f)
Empty == [k \in {} |-> 0]
PushBack(f, v) == f @@ (Size(f) :> v)
Back(f) == f[Size(f) - 1]

(***************************************************************************)
(* common::math::Vec2d and LineSegment2d.                                  *)
(***************************************************************************)
Vec2d(x, y) == [x |-> x, y |-> y]

\* Vec2d::DistanceTo
DistanceTo(a, b) == Hypot(a.x - b.x, a.y - b.y)

\* Vec2d::DistanceSquareTo
DistanceSquareTo(a, b) == Sqr(a.x - b.x) + Sqr(a.y - b.y)

\* Vec2d::Normalize applied to (dx, dy) of length l: unchanged when not longer
\* than kMathEpsilon
NormalizeBy(dx, dy, l) ==
  IF l > kMathEpsilon
  THEN [x |-> RDiv(dx * UNIT, l), y |-> RDiv(dy * UNIT, l)]
  ELSE [x |-> dx * UNIT, y |-> dy * UNIT]

Normalize(dx, dy) == NormalizeBy(dx, dy, Hypot(dx, dy))

\* LineSegment2d::LineSegment2d(start, end), given the length it computes
LineSegmentOfLength(start, end, len) ==
  [start |-> Vec2d(start.x, start.y),
   end |-> Vec2d(end.x, end.y),
   length |-> len,
   unit_direction |->
     IF len <= kMathEpsilon THEN Vec2d(0, 0)
     ELSE Vec2d(RDiv((end.x - start.x) * UNIT, len),
                RDiv((end.y - start.y) * UNIT, len))]

\* LineSegment2d::LineSegment2d(start, end)
LineSegment2d(start, end) ==
  LineSegmentOfLength(start, end, Hypot(end.x - start.x, end.y - start.y))

\* Vec2d::InnerProd of a unit vector u and a vector (x0, y0), in ticks
InnerProd(u, x0, y0) == RDiv(x0 * u.x + y0 * u.y, UNIT)

\* Vec2d::CrossProd of a unit vector u and a vector (x0, y0), in ticks:
\* positive when (x0, y0) points to the left of u
CrossProd(u, x0, y0) == RDiv(u.x * y0 - u.y * x0, UNIT)

\* LineSegment2d::ProjectOntoUnit
ProjectOntoUnit(seg, point) ==
  InnerProd(seg.unit_direction, point.x - seg.start.x, point.y - seg.start.y)

\* LineSegment2d::ProductOntoUnit
ProductOntoUnit(seg, point) ==
  CrossProd(seg.unit_direction, point.x - seg.start.x, point.y - seg.start.y)

\* LineSegment2d::DistanceTo(point)
SegDistanceTo(seg, point) ==
  IF seg.length <= kMathEpsilon THEN DistanceTo(point, seg.start)
  ELSE LET proj == ProjectOntoUnit(seg, point)
       IN  IF proj <= 0 THEN DistanceTo(point, seg.start)
           ELSE IF proj >= seg.length THEN DistanceTo(point, seg.end)
           ELSE Abs(ProductOntoUnit(seg, point))

\* LineSegment2d::DistanceSquareTo(point), in ticks^2
SegDistanceSquareTo(seg, point) ==
  IF seg.length <= kMathEpsilon THEN DistanceSquareTo(point, seg.start)
  ELSE LET proj == ProjectOntoUnit(seg, point)
       IN  IF proj <= 0 THEN DistanceSquareTo(point, seg.start)
           ELSE IF proj >= seg.length THEN DistanceSquareTo(point, seg.end)
           ELSE Sqr(ProductOntoUnit(seg, point))

(***************************************************************************)
(* The lane provider: LaneInfo::GetWidth(s, &left, &right).                *)
(***************************************************************************)
Lanes == {1, 2}

LaneGetWidth(lane, s) ==
  IF lane = 1
  THEN [left |-> IF s < FP THEN FP \div 2 ELSE FP, right |-> FP \div 2]
  ELSE [left |-> FP, right |-> IF s < FP \div 2 THEN FP \div 4 ELSE FP \div 2]

LaneWaypoint(lane, s) == [lane |-> lane, s |-> s]
LaneSegment(lane, start_s, end_s) ==
  [lane |-> lane, start_s |-> start_s, end_s |-> end_s]
\* LaneSegment(): the default-constructed segment, lane == nullptr
NullLaneSegment == LaneSegment(NullLane, 0, 0)

MapPathPoint(x, y, heading, lane_waypoints) ==
  [x |-> x, y |-> y, heading |-> heading, lane_waypoints |-> lane_waypoints]

(***************************************************************************)
(* Path construction.                                                      *)
(***************************************************************************)

\* the running s of InitPoints' loop when it reaches point i
RECURSIVE InitPointsS(_, _)
InitPointsS(path_points, i) ==
  IF i = 0 THEN 0
  ELSE InitPointsS(path_points, i - 1) +
       Hypot(path_points[i].x - path_points[i - 1].x,
             path_points[i].y - path_points[i - 1].y)

\* a variant of NumSamplePoints that forgets the sample at s = 0
NumSamplePointsNoFirst(length_) == TruncDiv(length_, kSampleDistance)

\* InitPoints: num_sample_points_ = static_cast<int>(length_ /
\* kSampleDistance) + 1
NumSamplePoints(length_) == TruncDiv(length_, kSampleDistance) + 1

\* Path::InitPoints: the tables, given num_points_ and accumulated_s_
InitPointsTables(path_points, n, acc) ==
  [num_points_ |-> n,
   accumulated_s_ |-> acc,
   segments_ |->
     [i \in 0..(n - 2) |-> LineSegment2d(path_points[i], path_points[i + 1])],
   unit_directions_ |->
     [i \in 0..(n - 1) |->
        IF i + 1 >= n
        THEN Normalize(path_points[i].x - path_points[i - 1].x,
                       path_points[i].y - path_points[i - 1].y)
        ELSE Normalize(path_points[i + 1].x - path_points[i].x,
                       path_points[i + 1].y - path_points[i].y)],
   length_ |-> acc[n - 1],
   num_sample_points_ |-> NumSamplePoints(acc[n - 1]),
   num_segments_ |-> n - 1]

\* Path::InitPoints, for num_points_ >= 2
InitPoints(path_points) ==
  InitPointsTables(path_points, Size(path_points),
    [i \in 0..(Size(path_points) - 1) |-> InitPointsS(path_points, i)])

\* find_lane_segment: the pairs (wp1, wp2) in iteration order, first match
FindLaneSegmentMatches(p1, p2) ==
  {ij \in (DOMAIN p1.lane_waypoints) \X (DOMAIN p2.lane_waypoints) :
     /\ p1.lane_waypoints[ij[1]].lane = p2.lane_waypoints[ij[2]].lane
     /\ p1.lane_waypoints[ij[1]].s < p2.lane_waypoints[ij[2]].s}

find_lane_segment(p1, p2) ==
  LET m == FindLaneSegmentMatches(p1, p2)
  IN  IF m = {} THEN [found |-> FALSE, lane_segment |-> NullLaneSegment]
      ELSE LET first == CHOOSE ij \in m :
                          \A kl \in m : \/ ij[1] < kl[1]
                                        \/ (ij[1] = kl[1] /\ ij[2] <= kl[2])
           IN  [found |-> TRUE,
                lane_segment |->
                  LaneSegment(p1.lane_waypoints[first[1]].lane,
                              p1.lane_waypoints[first[1]].s,
                              p2.lane_waypoints[first[2]].s)]

\* a variant of InitLaneSegmentsLoop that pushes a null segment for a pair
\* without a common lane
RECURSIVE InitLaneSegmentsLoopWithNull(_, _, _)
InitLaneSegmentsLoopWithNull(path_points, i, acc) ==
  IF i + 1 >= Size(path_points) THEN acc
  ELSE InitLaneSegmentsLoopWithNull(path_points, i + 1,
         PushBack(acc,
           find_lane_segment(path_points[i], path_points[i + 1]).lane_segment))

\* the first loop of Path::InitLaneSegments: only the found segments are
\* pushed back
RECURSIVE InitLaneSegmentsLoop(_, _, _)
InitLaneSegmentsLoop(path_points, i, acc) ==
  IF i + 1 >= Size(path_points) THEN acc
  ELSE LET r == find_lane_segment(path_points[i], path_points[i + 1])
       IN  InitLaneSegmentsLoop(path_points, i + 1,
             IF r.found THEN PushBack(acc, r.lane_segment) ELSE acc)

\* Path::InitLaneSegments
InitLaneSegments(path_points, lane_segments) ==
  [lane_segments_ |->
     IF Size(lane_segments) = 0
     THEN InitLaneSegmentsLoop(path_points, 0, Empty)
     ELSE lane_segments,
   lane_segments_to_next_point_ |->
     [i \in 0..(Size(path_points) - 2) |->
        find_lane_segment(path_points[i], path_points[i + 1]).lane_segment]]

\* the while loop of Path::InitPointIndex
RECURSIVE AdvanceLastIndex(_, _, _)
AdvanceLastIndex(p, last_index, s) ==
  IF last_index + 1 < p.num_points_ /\ p.accumulated_s_[last_index + 1] <= s
  THEN AdvanceLastIndex(p, last_index + 1, s)
  ELSE last_index

RECURSIVE InitPointIndexLoop(_, _, _, _, _)
InitPointIndexLoop(p, i, s, last_index, table) ==
  IF i >= p.num_sample_points_ THEN table
  ELSE LET li == AdvanceLastIndex(p, last_index, s)
       IN  InitPointIndexLoop(p, i + 1, s + kSampleDistance, li,
                              PushBack(table, li))

\* Path::InitPointIndex
InitPointIndex(p) == InitPointIndexLoop(p, 0, 0, 0, Empty)

(***************************************************************************)
(* Index queries.                                                          *)
(***************************************************************************)
InterpolatedIndex(id, offset) == [id |-> id, offset |-> offset]

\* a variant of GetSFromIndex that drops the offset
GetSFromIndexNoOffset(p, index) ==
  IF index.id < 0 THEN 0
  ELSE IF index.id >= p.num_points_ THEN p.length_
  ELSE p.accumulated_s_[index.id]

\* Path::GetSFromIndex
GetSFromIndex(p, index) ==
  IF index.id < 0 THEN 0
  ELSE IF index.id >= p.num_points_ THEN p.length_
  ELSE p.accumulated_s_[index.id] + index.offset

\* a variant of Bisect that moves low up only past a strictly smaller
\* accumulated_s_
RECURSIVE BisectStrict(_, _, _, _)
BisectStrict(p, s, low, high) ==
  IF low + 1 < high
  THEN LET mid == (low + high) \div 2
       IN  IF p.accumulated_s_[mid] < s THEN BisectStrict(p, s, mid, high)
           ELSE BisectStrict(p, s, low, mid)
  ELSE low

\* the bisection loop of Path::GetIndexFromS
RECURSIVE Bisect(_, _, _, _)
Bisect(p, s, low, high) ==
  IF low + 1 < high
  THEN LET mid == (low + high) \div 2
       IN  IF p.accumulated_s_[mid] <= s THEN Bisect(p, s, mid, high)
           ELSE Bisect(p, s, low, mid)
  ELSE low

\* GetIndexFromS: return {low, s - accumulated_s_[low]}
IndexAt(p, s, low) == InterpolatedIndex(low, s - p.accumulated_s_[low])

\* GetIndexFromS: the search between the entries of sample_id and of the
\* sample after it
IndexInSample(p, s, sample_id) ==
  IF sample_id >= p.num_sample_points_
  THEN InterpolatedIndex(p.num_points_ - 1, 0)
  ELSE IndexAt(p, s,
         Bisect(p, s, p.last_point_index_[sample_id],
                IF sample_id + 1 < p.num_sample_points_
                THEN Min(p.num_points_, p.last_point_index_[sample_id + 1] + 1)
                ELSE p.num_points_))

\* Path::GetIndexFromS
GetIndexFromS(p, s) ==
  IF s <= 0 THEN InterpolatedIndex(0, 0)
  ELSE IF s >= p.length_ THEN InterpolatedIndex(p.num_points_ - 1, 0)
  ELSE IndexInSample(p, s, TruncDiv(s, kSampleDistance))

\* Path::GetSmoothPoint(const InterpolatedIndex&), for 0 <= index.id <
\* num_points_
GetSmoothPointAt(p, index) ==
  LET ref_point == p.path_points_[index.id]
  IN  IF Abs(index.offset) > kMathEpsilon
      THEN LET u == p.unit_directions_[index.id]
               x == ref_point.x + RDiv(u.x * index.offset, UNIT)
               y == ref_point.y + RDiv(u.y * index.offset, UNIT)
               lane_segment ==
                 IF index.id < p.num_segments_
                 THEN p.lane_segments_to_next_point_[index.id]
                 ELSE NullLaneSegment
               wps == IF lane_segment.lane # NullLane
                      THEN PushBack(Empty,
                             LaneWaypoint(lane_segment.lane,
                                          lane_segment.start_s + index.offset))
                      ELSE Empty
           IN  MapPathPoint(x, y, ref_point.heading,
                 IF Size(wps) = 0 /\ Size(ref_point.lane_waypoints) # 0
                 THEN PushBack(Empty, ref_point.lane_waypoints[0])
                 ELSE wps)
      ELSE ref_point

\* Path::GetSmoothPoint(double s)
GetSmoothPoint(p, s) == GetSmoothPointAt(p, GetIndexFromS(p, s))

\* Path::InitWidth: the widths pushed for the smooth point of one sample
WidthOfPoint(point) ==
  IF Size(point.lane_waypoints) = 0 THEN [left |-> 0, right |-> 0]
  ELSE LaneGetWidth(point.lane_waypoints[0].lane, point.lane_waypoints[0].s)

\* Path::InitWidth: the sample at s = i * kSampleDistance
InitWidthSample(p, i) == WidthOfPoint(GetSmoothPoint(p, i * kSampleDistance))

InitWidth(p) ==
  [left_width_ |->
     [i \in 0..(p.num_sample_points_ - 1) |-> InitWidthSample(p, i).left],
   right_width_ |->
     [i \in 0..(p.num_sample_points_ - 1) |-> InitWidthSample(p, i).right]]

(***************************************************************************)
(* PathApproximation construction.                                         *)
(***************************************************************************)

\* PathApproximation::is_within_max_error, on the points of `path`
RECURSIVE IsWithinLoop(_, _, _, _, _)
IsWithinLoop(max_sqr_error_, points, segment, i, t) ==
  IF i >= t THEN TRUE
  ELSE IF SegDistanceSquareTo(segment, points[i]) > max_sqr_error_ THEN FALSE
  ELSE IsWithinLoop(max_sqr_error_, points, segment, i + 1, t)

is_within_max_error(max_sqr_error_, points, s, t) ==
  IF s + 1 >= t THEN TRUE
  ELSE IsWithinLoop(max_sqr_error_, points,
                    LineSegment2d(points[s], points[t]), s + 1, t)

\* PathApproximation::compute_max_error
RECURSIVE MaxDistanceSqrLoop(_, _, _, _, _)
MaxDistanceSqrLoop(points, segment, i, t, max_distance_sqr) ==
  IF i >= t THEN max_distance_sqr
  ELSE MaxDistanceSqrLoop(points, segment, i + 1, t,
         Max(max_distance_sqr, SegDistanceSquareTo(segment, points[i])))

compute_max_error(points, s, t) ==
  IF s + 1 >= t THEN 0
  ELSE Sqrt(MaxDistanceSqrLoop(points, LineSegment2d(points[s], points[t]),
                               s + 1, t, 0))

\* InitDilute, first for loop: doubling; yields the delta and next_idx it
\* leaves behind
RECURSIVE DiluteDouble(_, _, _, _, _)
DiluteDouble(max_sqr_error_, points, last_idx, delta, next_idx) ==
  IF last_idx + delta < Size(points)
  THEN IF ~is_within_max_error(max_sqr_error_, points, last_idx,
                               last_idx + delta)
       THEN [delta |-> delta, next_idx |-> next_idx]
       ELSE DiluteDouble(max_sqr_error_, points, last_idx, delta * 2,
                         last_idx + delta)
  ELSE [delta |-> delta, next_idx |-> next_idx]

\* a variant of DiluteShrink that steps on without asking
\* is_within_max_error
RECURSIVE DiluteShrinkUnchecked(_, _, _, _, _)
DiluteShrinkUnchecked(max_sqr_error_, points, last_idx, delta, next_idx) ==
  IF delta > 0
  THEN DiluteShrinkUnchecked(max_sqr_error_, points, last_idx, delta \div 2,
         IF next_idx + delta < Size(points) THEN next_idx + delta
         ELSE next_idx)
  ELSE next_idx

\* InitDilute, second for loop: halving
RECURSIVE DiluteShrink(_, _, _, _, _)
DiluteShrink(max_sqr_error_, points, last_idx, delta, next_idx) ==
  IF delta > 0
  THEN DiluteShrink(max_sqr_error_, points, last_idx, delta \div 2,
         IF /\ next_idx + delta < Size(points)
            /\ is_within_max_error(max_sqr_error_, points, last_idx,
                                   next_idx + delta)
         THEN next_idx + delta
         ELSE next_idx)
  ELSE next_idx

\* one advance of InitDilute's while loop from last_idx
DiluteAdvance(max_sqr_error_, points, last_idx) ==
  LET d == DiluteDouble(max_sqr_error_, points, last_idx, 2, last_idx + 1)
  IN  DiluteShrink(max_sqr_error_, points, last_idx, d.delta, d.next_idx)

\* a variant of DiluteLoop that retains the point reached by each advance
\* and not the one it starts from
RECURSIVE DiluteLoopNoFirst(_, _, _, _)
DiluteLoopNoFirst(max_sqr_error_, points, last_idx, original_ids_) ==
  IF last_idx < Size(points) - 1
  THEN DiluteLoopNoFirst(max_sqr_error_, points,
         DiluteAdvance(max_sqr_error_, points, last_idx),
         PushBack(original_ids_,
                  DiluteAdvance(max_sqr_error_, points, last_idx)))
  ELSE original_ids_

\* InitDilute's while loop and the final push_back
RECURSIVE DiluteLoop(_, _, _, _)
DiluteLoop(max_sqr_error_, points, last_idx, original_ids_) ==
  IF last_idx < Size(points) - 1
  THEN DiluteLoop(max_sqr_error_, points,
                  DiluteAdvance(max_sqr_error_, points, last_idx),
                  PushBack(original_ids_, last_idx))
  ELSE PushBack(original_ids_, last_idx)

\* InitDilute: segments_ and max_error_per_segment_ from original_ids_
DilutedTables(points, ids) ==
  [original_ids_ |-> ids,
   num_points_ |-> Size(ids),
   segments_ |->
     [i \in 0..(Size(ids) - 2) |->
        LineSegment2d(points[ids[i]], points[ids[i + 1]])],
   max_error_per_segment_ |->
     [i \in 0..(Size(ids) - 2) |-> compute_max_error(points, ids[i], ids[i + 1])]]

\* PathApproximation::InitDilute
InitDilute(max_sqr_error_, points) ==
  DilutedTables(points, DiluteLoop(max_sqr_error_, points, 0, Empty))

\* InitProjections: projections_[i] is the summed length of segments_[0..i-1]
RECURSIVE ProjectionsS(_, _)
ProjectionsS(segments_, i) ==
  IF i = 0 THEN 0 ELSE ProjectionsS(segments_, i - 1) + segments_[i - 1].length

\* InitProjections: the inner loop pushing the original points strictly
\* inside simplified segment i
RECURSIVE OriginalProjectionsInner(_, _, _, _, _)
OriginalProjectionsInner(d, points, i, idx, table) ==
  IF idx < d.original_ids_[i + 1]
  THEN LET segment == d.segments_[i]
           proj == ProjectOntoUnit(segment, points[idx])
       IN  OriginalProjectionsInner(d, points, i, idx + 1,
             PushBack(table,
               ProjectionsS(d.segments_, i) + Max(0, Min(proj, segment.length))))
  ELSE table

\* InitProjections: the loop filling original_projections_
RECURSIVE OriginalProjectionsLoop(_, _, _, _)
OriginalProjectionsLoop(d, points, i, table) ==
  IF i < d.num_points_
  THEN LET t1 == PushBack(table, ProjectionsS(d.segments_, i))
       IN  OriginalProjectionsLoop(d, points, i + 1,
             IF i + 1 < d.num_points_
             THEN OriginalProjectionsInner(d, points, i,
                                           d.original_ids_[i] + 1, t1)
             ELSE t1)
  ELSE table

\* max_p_to_left[i] = max(p[0], ..., p[i])
RECURSIVE MaxToLeft(_, _)
MaxToLeft(op, i) ==
  IF i = 0 THEN Max(-Infinity, op[0]) ELSE Max(MaxToLeft(op, i - 1), op[i])

\* min_p_to_right[i] = min(p[i], ..., p[size - 1])
RECURSIVE MinToRight(_, _, _)
MinToRight(op, n, i) ==
  IF i = n - 1 THEN Min(Infinity, op[i]) ELSE Min(MinToRight(op, n, i + 1), op[i])

\* the while loop of the sampling of max_p_to_left
RECURSIVE AdvanceSampleIndex(_, _, _, _)
AdvanceSampleIndex(max_left, num_original_points, last_index, proj) ==
  IF last_index + 1 < num_original_points /\ max_left[last_index + 1] < proj
  THEN AdvanceSampleIndex(max_left, num_original_points, last_index + 1, proj)
  ELSE last_index

\* one round of the sampling loop, given where its while loop stops
RECURSIVE SampleLoop(_, _, _, _, _, _, _)
SamplePush(max_left, num_original_points, num_samples, i, proj, li, table) ==
  SampleLoop(max_left, num_original_points, num_samples, i + 1,
             proj + kSampleDistance, li, PushBack(table, li))

\* the for loop sampling max_p_to_left by kSampleDistance
SampleLoop(max_left, num_original_points, num_samples, i, proj, last_index, table) ==
  IF i >= num_samples THEN table
  ELSE SamplePush(max_left, num_original_points, num_samples, i, proj,
         AdvanceSampleIndex(max_left, num_original_points, last_index, proj),
         table)

\* InitProjections, from the sampling on
InitProjectionsSampled(projections, op, max_left, num_original_points) ==
  [projections_ |-> projections,
   original_projections_ |-> op,
   max_original_projections_to_left_ |-> max_left,
   min_original_projections_to_right_ |->
     [i \in 0..(Size(op) - 1) |-> MinToRight(op, num_original_points, i)],
   max_projection_ |-> Back(projections),
   num_projection_samples_ |-> TruncDiv(Back(projections), kSampleDistance) + 1,
   sampled_max_original_projections_to_left_ |->
     SampleLoop(max_left, num_original_points,
                TruncDiv(Back(projections), kSampleDistance) + 1, 0, 0, 0, Empty)]

\* InitProjections, from max_original_projections_to_left_ on
InitProjectionsMax(projections, op, num_original_points) ==
  InitProjectionsSampled(projections, op,
    [i \in 0..(num_original_points - 1) |-> MaxToLeft(op, i)],
    num_original_points)

\* PathApproximation::InitProjections, for num_points_ > 0
InitProjections(d, points) ==
  InitProjectionsMax(
    [i \in 0..(d.num_points_ - 1) |-> ProjectionsS(d.segments_, i)],
    OriginalProjectionsLoop(d, points, 0, Empty),
    Size(points))

\* the CHECK_LE assertions of InitProjections
InitProjectionsChecks(a, num_original_points) ==
  \A i \in 0..(num_original_points - 2) :
    /\ a.max_original_projections_to_left_[i] <=
         a.max_original_projections_to_left_[i + 1] + kMathEpsilon
    /\ a.min_original_projections_to_right_[i] <=
         a.min_original_projections_to_right_[i + 1] + kMathEpsilon

\* the members of a PathApproximation after InitDilute and InitProjections
ApproximationTables(max_error, d, pr) ==
  [max_error_ |-> max_error,
   max_sqr_error_ |-> max_error * max_error,
   original_ids_ |-> d.original_ids_,
   num_points_ |-> d.num_points_,
   segments_ |-> d.segments_,
   max_error_per_segment_ |-> d.max_error_per_segment_,
   projections_ |-> pr.projections_,
   original_projections_ |-> pr.original_projections_,
   max_original_projections_to_left_ |-> pr.max_original_projections_to_left_,
   min_original_projections_to_right_ |->
     pr.min_original_projections_to_right_,
   max_projection_ |-> pr.max_projection_,
   num_projection_samples_ |-> pr.num_projection_samples_,
   sampled_max_original_projections_to_left_ |->
     pr.sampled_max_original_projections_to_left_]

\* PathApproximation::Init, after InitDilute
InitAfterDilute(points, max_error, d) ==
  ApproximationTables(max_error, d, InitProjections(d, points))

\* PathApproximation(path, max_error): the constructor and Init
PathApproximation(points, max_error) ==
  InitAfterDilute(points, max_error, InitDilute(max_error * max_error, points))

\* the members of a PathApproximation when InitDilute has returned and
\* InitProjections has not yet run
DilutedMembers(max_error, d) ==
  [max_error_ |-> max_error,
   max_sqr_error_ |-> max_error * max_error,
   original_ids_ |-> d.original_ids_,
   num_points_ |-> d.num_points_,
   segments_ |-> d.segments_,
   max_error_per_segment_ |-> d.max_error_per_segment_]

\* PathApproximation(path, max_error) up to the return of InitDilute
PathApproximationDiluted(points, max_error) ==
  DilutedMembers(max_error, InitDilute(max_error * max_error, points))

\* a default-constructed PathApproximation
NoApproximation == [num_points_ |-> 0]

(***************************************************************************)
(* Projection queries.  The output arguments are the record `out`          *)
(* (accumulate_s, lateral, min_distance); `nulls` names the output         *)
(* pointers the caller passed as nullptr.  A query yields its return value *)
(* and the output arguments as it leaves them.                             *)
(***************************************************************************)
OutNames == {"accumulate_s", "lateral", "min_distance"}

\* a variant of ProjectionCandidate that treats the open ends as any other
\* place: lateral is always +-distance
ProjectionCandidateNoOpenEnd(p, i, distance, proj, prod) ==
  [min_distance |-> distance,
   accumulate_s |->
     IF i + 1 >= p.num_segments_
     THEN p.accumulated_s_[i] + proj
     ELSE p.accumulated_s_[i] + Min(proj, p.segments_[i].length),
   lateral |-> IF prod > 0 THEN distance ELSE -distance]

\* a variant of ProjectionCandidate with the sign test reversed
ProjectionCandidateFlipped(p, i, distance, proj, prod) ==
  [min_distance |-> distance,
   accumulate_s |->
     IF i + 1 >= p.num_segments_
     THEN p.accumulated_s_[i] + proj
     ELSE p.accumulated_s_[i] + Min(proj, p.segments_[i].length),
   lateral |->
     IF \/ (i = 0 /\ proj < 0)
        \/ (i + 1 = p.num_segments_ /\ proj > p.segments_[i].length)
     THEN prod
     ELSE IF prod < 0 THEN distance ELSE -distance]

\* Path::GetProjection: the outputs written when segment i is taken as the
\* nearest so far
ProjectionCandidate(p, i, distance, proj, prod) ==
  [min_distance |-> distance,
   accumulate_s |->
     IF i + 1 >= p.num_segments_
     THEN p.accumulated_s_[i] + proj
     ELSE p.accumulated_s_[i] + Min(proj, p.segments_[i].length),
   lateral |->
     IF \/ (i = 0 /\ proj < 0)
        \/ (i + 1 = p.num_segments_ /\ proj > p.segments_[i].length)
     THEN prod
     ELSE IF prod > 0 THEN distance ELSE -distance]

\* a variant of GetProjectionVisit whose second continue does not ask on
\* which side of the next segment's start the point lies
GetProjectionVisitNoDirectionTest(p, point, i, out, distance, proj) ==
  IF proj < 0 /\ i > 0 THEN out
  ELSE IF /\ proj > p.segments_[i].length
          /\ i + 1 < p.num_segments_
  THEN out
  ELSE ProjectionCandidate(p, i, distance, proj,
                           ProductOntoUnit(p.segments_[i], point))

\* Path::GetProjection, the body of `if (distance < *min_distance)`: the two
\* continues, then the outputs
GetProjectionVisit(p, point, i, out, distance, proj) ==
  IF proj < 0 /\ i > 0 THEN out
  ELSE IF /\ proj > p.segments_[i].length
          /\ i + 1 < p.num_segments_
          /\ InnerProd(p.segments_[i + 1].unit_direction,
                       point.x - p.segments_[i + 1].start.x,
                       point.y - p.segments_[i + 1].start.y) >= 0
  THEN out
  ELSE ProjectionCandidate(p, i, distance, proj,
                           ProductOntoUnit(p.segments_[i], point))

\* Path::GetProjection, one round of the for loop, given the distance to
\* segment i
GetProjectionStep(p, point, i, out, distance) ==
  IF distance < out.min_distance
  THEN GetProjectionVisit(p, point, i, out, distance,
                          ProjectOntoUnit(p.segments_[i], point))
  ELSE out

\* the for loop of Path::GetProjection over the segments from i on
RECURSIVE GetProjectionLoop(_, _, _, _)
GetProjectionLoop(p, point, i, out) ==
  IF i >= p.num_segments_ THEN out
  ELSE GetProjectionLoop(p, point, i + 1,
         GetProjectionStep(p, point, i, out,
                           SegDistanceTo(p.segments_[i], point)))

\* PathApproximation::GetProjection, first pass: the index of the first
\* simplified segment at the least squared distance, -1 when there is none
RECURSIVE EstimateNearest(_, _, _, _, _)
EstimateTake(a, point, i, min_distance_sqr, idx, distance_sqr) ==
  IF distance_sqr < min_distance_sqr
  THEN EstimateNearest(a, point, i + 1, distance_sqr, i)
  ELSE EstimateNearest(a, point, i + 1, min_distance_sqr, idx)

EstimateNearest(a, point, i, min_distance_sqr, idx) ==
  IF i >= Size(a.segments_)
  THEN [min_distance_sqr |-> min_distance_sqr,
        estimate_nearest_segment_idx |-> idx]
  ELSE EstimateTake(a, point, i, min_distance_sqr, idx,
                    SegDistanceSquareTo(a.segments_[i], point))

\* the while loop that advances first_segment_idx
RECURSIVE AdvanceFirst(_, _, _, _)
AdvanceFirst(a, first_segment_idx, last_segment_idx, limit) ==
  IF /\ first_segment_idx < last_segment_idx
     /\ a.max_original_projections_to_left_[first_segment_idx + 1] < limit
  THEN AdvanceFirst(a, first_segment_idx + 1, last_segment_idx, limit)
  ELSE first_segment_idx

\* first_segment_idx, once raised to the sampled index f
FirstFromSampled(a, i, limit, f) ==
  IF f >= a.original_ids_[i + 1] - 1 THEN a.original_ids_[i + 1] - 1
  ELSE AdvanceFirst(a, f, a.original_ids_[i + 1] - 1, limit)

\* first_segment_idx from the sample that holds limit
FirstFromSample(a, i, limit, sample_index) ==
  IF sample_index >= a.num_projection_samples_
  THEN a.original_ids_[i + 1] - 1
  ELSE FirstFromSampled(a, i, limit,
         Max(a.original_ids_[i],
             a.sampled_max_original_projections_to_left_[sample_index]))

\* first_segment_idx for min_projection > 0
FirstFromLimit(a, i, limit) ==
  FirstFromSample(a, i, limit, Max(0, TruncDiv(limit, kSampleDistance)))

\* the window of simplified segment i, given the projection of the point on
\* it and the scan distance
WindowScanned(a, i, projection, scan_distance) ==
  [skip |-> FALSE,
   first |-> IF projection - scan_distance > 0
             THEN FirstFromLimit(a, i,
                    a.projections_[i] + (projection - scan_distance))
             ELSE a.original_ids_[i],
   last |-> a.original_ids_[i + 1] - 1,
   max_original_projection |-> a.projections_[i] + projection + scan_distance]

\* the window of simplified segment i, given the projection of the point on
\* it and its squared offset from it
WindowProjected(a, i, radius_sqr, projection, prod_sqr) ==
  IF prod_sqr >= radius_sqr
  THEN [skip |-> TRUE, first |-> a.original_ids_[i],
        last |-> a.original_ids_[i + 1] - 1,
        max_original_projection |-> Infinity]
  ELSE WindowScanned(a, i, projection, Sqrt(radius_sqr - prod_sqr))

\* the narrowing of [first_segment_idx, last_segment_idx] for simplified
\* segment i, given the squared search radius; `skip` is the continue taken
\* when prod_sqr reaches that radius
NarrowWindow(a, i, centre, radius_sqr) ==
  IF a.original_ids_[i] < a.original_ids_[i + 1] - 1
  THEN WindowProjected(a, i, radius_sqr,
         ProjectOntoUnit(a.segments_[i], centre),
         Sqr(ProductOntoUnit(a.segments_[i], centre)))
  ELSE [skip |-> FALSE, first |-> a.original_ids_[i],
        last |-> a.original_ids_[i + 1] - 1,
        max_original_projection |-> Infinity]

\* the loop over the original segments idx..last_segment_idx of one
\* simplified segment; st carries min_distance, nearest_segment_idx,
\* min_distance_updated and is_within_end_point
RECURSIVE OriginalSegmentsLoop(_, _, _, _, _, _)

\* `if (distance < *min_distance)` for original segment idx
OriginalSegmentTake(a, p, point, w, idx, st, is_within_end_point, distance) ==
  IF distance < st.min_distance
  THEN OriginalSegmentsLoop(a, p, point, w, idx + 1,
         [min_distance |-> distance, nearest_segment_idx |-> idx,
          min_distance_updated |-> TRUE,
          is_within_end_point |-> is_within_end_point])
  ELSE OriginalSegmentsLoop(a, p, point, w, idx + 1,
         [st EXCEPT !.is_within_end_point = is_within_end_point])

\* the three branches on proj for original segment idx
OriginalSegmentVisit(a, p, point, w, idx, st, x0, y0, proj) ==
  IF proj < 0
  THEN IF st.is_within_end_point
       THEN OriginalSegmentsLoop(a, p, point, w, idx + 1, st)
       ELSE OriginalSegmentTake(a, p, point, w, idx, st, TRUE, Hypot(x0, y0))
  ELSE IF proj <= p.segments_[idx].length
  THEN OriginalSegmentTake(a, p, point, w, idx, st, TRUE,
         Abs(RDiv(x0 * p.segments_[idx].unit_direction.y
                    - y0 * p.segments_[idx].unit_direction.x, UNIT)))
  ELSE IF idx # w.last
  THEN OriginalSegmentsLoop(a, p, point, w, idx + 1,
         [st EXCEPT !.is_within_end_point = FALSE])
  ELSE OriginalSegmentTake(a, p, point, w, idx, st, FALSE,
         DistanceTo(p.segments_[idx].end, point))

\* proj = x0 * ux + y0 * uy for original segment idx
OriginalSegmentProject(a, p, point, w, idx, st, x0, y0) ==
  OriginalSegmentVisit(a, p, point, w, idx, st, x0, y0,
    InnerProd(p.segments_[idx].unit_direction, x0, y0))

OriginalSegmentsLoop(a, p, point, w, idx, st) ==
  IF idx > w.last THEN st
  ELSE IF a.min_original_projections_to_right_[idx] > w.max_original_projection
  THEN st
  ELSE OriginalSegmentProject(a, p, point, w, idx, st,
         point.x - p.segments_[idx].start.x,
         point.y - p.segments_[idx].start.y)

\* PathApproximation::GetProjection, second pass over the simplified
\* segments from i on; st carries min_distance_sqr_with_error, min_distance
\* and nearest_segment_idx
RECURSIVE RefineLoop(_, _, _, _, _, _)

\* the end of one round: `if (min_distance_updated)`
RefineUpdate(a, p, point, distance_sqr_to_segments, i, st, r) ==
  RefineLoop(a, p, point, distance_sqr_to_segments, i + 1,
    [min_distance_sqr_with_error |->
       IF r.min_distance_updated
       THEN Sqr(r.min_distance + a.max_error_)
       ELSE st.min_distance_sqr_with_error,
     min_distance |-> r.min_distance,
     nearest_segment_idx |-> r.nearest_segment_idx])

\* one round over the window w of simplified segment i
RefineWindow(a, p, point, distance_sqr_to_segments, i, st, w) ==
  IF w.skip
  THEN RefineLoop(a, p, point, distance_sqr_to_segments, i + 1, st)
  ELSE RefineUpdate(a, p, point, distance_sqr_to_segments, i, st,
         OriginalSegmentsLoop(a, p, point, w, w.first,
           [min_distance |-> st.min_distance,
            nearest_segment_idx |-> st.nearest_segment_idx,
            min_distance_updated |-> FALSE,
            is_within_end_point |-> FALSE]))

RefineLoop(a, p, point, distance_sqr_to_segments, i, st) ==
  IF i >= Size(a.segments_) THEN st
  ELSE IF distance_sqr_to_segments[i] >= st.min_distance_sqr_with_error
  THEN RefineLoop(a, p, point, distance_sqr_to_segments, i + 1, st)
  ELSE RefineWindow(a, p, point, distance_sqr_to_segments, i, st,
         NarrowWindow(a, i, point, st.min_distance_sqr_with_error))

\* PathApproximation::GetProjection, the outputs written for the nearest
\* original segment, given its clamped proj and its prod
ApproxCandidate(p, nearest_segment_idx, min_distance, proj, prod) ==
  [accumulate_s |-> p.accumulated_s_[nearest_segment_idx] + proj,
   lateral |->
     IF \/ (nearest_segment_idx = 0 /\ proj < 0)
        \/ (/\ nearest_segment_idx + 1 = Size(p.segments_)
            /\ proj > p.segments_[nearest_segment_idx].length)
     THEN prod
     ELSE IF prod > 0 THEN min_distance ELSE -min_distance,
   min_distance |-> min_distance]

\* the two clamps of proj
ApproxClamp(p, nearest_segment_idx, proj0) ==
  IF nearest_segment_idx + 1 < Size(p.segments_)
  THEN Min(p.segments_[nearest_segment_idx].length,
           IF nearest_segment_idx > 0 THEN Max(0, proj0) ELSE proj0)
  ELSE IF nearest_segment_idx > 0 THEN Max(0, proj0) ELSE proj0

\* PathApproximation::GetProjection, after the second pass has left r
ApproxFinish(p, point, out, r) ==
  IF r.nearest_segment_idx >= 0
  THEN [ret |-> TRUE,
        out |-> ApproxCandidate(p, r.nearest_segment_idx, r.min_distance,
                  ApproxClamp(p, r.nearest_segment_idx,
                    ProjectOntoUnit(p.segments_[r.nearest_segment_idx], point)),
                  ProductOntoUnit(p.segments_[r.nearest_segment_idx], point))]
  ELSE [ret |-> FALSE, out |-> [out EXCEPT !.min_distance = Infinity]]

\* PathApproximation::GetProjection, after the first pass has left est
ApproxRefine(a, p, point, out, est) ==
  IF est.estimate_nearest_segment_idx < 0
  THEN [ret |-> FALSE, out |-> out]
  ELSE ApproxFinish(p, point, out,
         RefineLoop(a, p, point,
           [i \in DOMAIN a.segments_ |->
              SegDistanceSquareTo(a.segments_[i], point)],
           0,
           [min_distance_sqr_with_error |->
              Sqr(Sqrt(est.min_distance_sqr) +
                  a.max_error_per_segment_[est.estimate_nearest_segment_idx] +
                  a.max_error_),
            min_distance |-> Infinity,
            nearest_segment_idx |-> -1]))

\* PathApproximation::GetProjection
ApproxGetProjection(a, p, point, out, nulls) ==
  IF a.num_points_ = 0 THEN [ret |-> FALSE, out |-> out]
  ELSE IF nulls # {} THEN [ret |-> FALSE, out |-> out]
  ELSE ApproxRefine(a, p, point, out, EstimateNearest(a, point, 0, Infinity, -1))

\* a variant of GetProjection that resets *min_distance before it checks the
\* other output pointers
GetProjectionResetFirst(p, point, out, nulls) ==
  IF Size(p.segments_) = 0 THEN [ret |-> FALSE, out |-> out]
  ELSE IF "min_distance" \in nulls THEN [ret |-> FALSE, out |-> out]
  ELSE IF nulls # {}
  THEN [ret |-> FALSE, out |-> [out EXCEPT !.min_distance = Infinity]]
  ELSE IF p.use_path_approximation_
  THEN ApproxGetProjection(p.approximation_, p, point, out, nulls)
  ELSE [ret |-> TRUE,
        out |-> GetProjectionLoop(p, point, 0,
                  [out EXCEPT !.min_distance = Infinity])]

\* Path::GetProjection(point, accumulate_s, lateral, min_distance)
GetProjection(p, point, out, nulls) ==
  IF Size(p.segments_) = 0 THEN [ret |-> FALSE, out |-> out]
  ELSE IF nulls # {} THEN [ret |-> FALSE, out |-> out]
  ELSE IF p.use_path_approximation_
  THEN ApproxGetProjection(p.approximation_, p, point, out, nulls)
  ELSE [ret |-> TRUE,
        out |-> GetProjectionLoop(p, point, 0,
                  [out EXCEPT !.min_distance = Infinity])]

\* a variant of ClampNearest without the clamp at the end of the path
ClampNearestStartOnly(p, point, r) ==
  IF ~r.ret THEN [ret |-> FALSE, out |-> r.out]
  ELSE IF r.out.accumulate_s < 0
  THEN [ret |-> TRUE,
        out |-> [r.out EXCEPT !.accumulate_s = 0,
                              !.min_distance =
                                DistanceTo(point, p.path_points_[0])]]
  ELSE [ret |-> TRUE, out |-> r.out]

\* Path::GetNearestPoint, after GetProjection has returned r
ClampNearest(p, point, r) ==
  IF ~r.ret THEN [ret |-> FALSE, out |-> r.out]
  ELSE IF r.out.accumulate_s < 0
  THEN [ret |-> TRUE,
        out |-> [r.out EXCEPT !.accumulate_s = 0,
                              !.min_distance =
                                DistanceTo(point, p.path_points_[0])]]
  ELSE IF r.out.accumulate_s > p.length_
  THEN [ret |-> TRUE,
        out |-> [r.out EXCEPT !.accumulate_s = p.length_,
                              !.min_distance =
                                DistanceTo(point, Back(p.path_points_))]]
  ELSE [ret |-> TRUE, out |-> r.out]

\* Path::GetNearestPoint(point, accumulate_s, lateral, min_distance)
GetNearestPoint(p, point, out, nulls) ==
  ClampNearest(p, point, GetProjection(p, point, out, nulls))

(***************************************************************************)
(* Width queries.                                                          *)
(***************************************************************************)

\* a variant of GetSample with the two interpolation weights exchanged
GetSampleSwapped(p, samples, s) ==
  IF Size(samples) = 0 THEN 0
  ELSE IF s <= 0 THEN samples[0]
  ELSE LET idx == TruncDiv(s, kSampleDistance)
       IN  IF idx >= p.num_sample_points_ - 1 THEN Back(samples)
           ELSE LET ratio == RDiv((s - idx * kSampleDistance) * UNIT,
                                  kSampleDistance)
                IN  RDiv(samples[idx] * ratio + samples[idx + 1] * (UNIT - ratio),
                         UNIT)

\* Path::GetSample
GetSample(p, samples, s) ==
  IF Size(samples) = 0 THEN 0
  ELSE IF s <= 0 THEN samples[0]
  ELSE LET idx == TruncDiv(s, kSampleDistance)
       IN  IF idx >= p.num_sample_points_ - 1 THEN Back(samples)
           ELSE LET ratio == RDiv((s - idx * kSampleDistance) * UNIT,
                                  kSampleDistance)
                IN  RDiv(samples[idx] * (UNIT - ratio) + samples[idx + 1] * ratio,
                         UNIT)

\* Path::GetLeftWidth
GetLeftWidth(p, s) == GetSample(p, p.left_width_, s)

\* Path::GetRightWidth
GetRightWidth(p, s) == GetSample(p, p.right_width_, s)

\* Path::GetWidth(s, left_width, right_width): w holds the two output
\* arguments
GetWidth(p, s, w) ==
  IF s < 0 \/ s > p.length_ THEN [ret |-> FALSE, w |-> w]
  ELSE [ret |-> TRUE,
        w |-> [left_width |-> GetSample(p, p.left_width_, s),
               right_width |-> GetSample(p, p.right_width_, s)]]

\* IsOnPath: the comparison with the widths GetWidth has returned in g
IsWithinWidth(lateral, g) ==
  IF ~g.ret THEN FALSE
  ELSE IF lateral < g.w.left_width /\ lateral > -g.w.right_width THEN TRUE
  ELSE FALSE

\* a variant of IsOnPathAt that samples the widths without GetWidth's range
\* check
IsOnPathAtNoRangeCheck(p, r) ==
  IF ~r.ret THEN FALSE
  ELSE /\ r.out.lateral < GetSample(p, p.left_width_, r.out.accumulate_s)
       /\ r.out.lateral > -GetSample(p, p.right_width_, r.out.accumulate_s)

\* Path::IsOnPath, after GetProjection has returned r
IsOnPathAt(p, r) ==
  IF ~r.ret THEN FALSE
  ELSE IsWithinWidth(r.out.lateral,
         GetWidth(p, r.out.accumulate_s, [left_width |-> 0, right_width |-> 0]))

\* Path::IsOnPath
IsOnPath(p, point) ==
  IsOnPathAt(p, GetProjection(p, point,
                  [accumulate_s |-> 0, lateral |-> 0, min_distance |-> 0], {}))

(***************************************************************************)
(* OverlapWith.  The boxes are axis-parallel squares of half side `half`   *)
(* about a centre; half = 0 is a box of no extent.                         *)
(***************************************************************************)
Box2d(center, half) ==
  [center |-> center, half |-> half, diagonal |-> Hypot(2 * half, 2 * half)]

\* Box2d::DistanceTo(const Vec2d&)
BoxDistanceToPoint(box, point) ==
  Hypot(Max(Abs(point.x - box.center.x) - box.half, 0),
        Max(Abs(point.y - box.center.y) - box.half, 0))

\* Box2d::GetAllCorners
BoxCorners(box) ==
  {Vec2d(box.center.x + dx * box.half, box.center.y + dy * box.half) :
     dx \in {-1, 1}, dy \in {-1, 1}}

\* the sides of the box, as pairs of corners
BoxSides(box) ==
  {<<Vec2d(box.center.x - box.half, box.center.y + sy * box.half),
     Vec2d(box.center.x + box.half, box.center.y + sy * box.half)>> :
     sy \in {-1, 1}}
    \cup
  {<<Vec2d(box.center.x + sx * box.half, box.center.y - box.half),
     Vec2d(box.center.x + sx * box.half, box.center.y + box.half)>> :
     sx \in {-1, 1}}

Sign(a) == IF a > 0 THEN 1 ELSE IF a < 0 THEN -1 ELSE 0

\* the side of the line a -> b on which c lies
Orient(a, b, c) ==
  Sign((b.x - a.x) * (c.y - a.y) - (b.y - a.y) * (c.x - a.x))

\* the extents of a -> b and c -> d along both axes overlap
ExtentsMeet(a, b, c, d) ==
  /\ Max(Min(a.x, b.x), Min(c.x, d.x)) <= Min(Max(a.x, b.x), Max(c.x, d.x))
  /\ Max(Min(a.y, b.y), Min(c.y, d.y)) <= Min(Max(a.y, b.y), Max(c.y, d.y))

\* the segments a -> b and c -> d have a point in common, given the sides
\* o1..o4 on which each end lies of the other segment
SegmentsMeetAt(a, b, c, d, o1, o2, o3, o4) ==
  IF o1 = 0 /\ o2 = 0 /\ o3 = 0 /\ o4 = 0 THEN ExtentsMeet(a, b, c, d)
  ELSE o1 * o2 <= 0 /\ o3 * o4 <= 0

SegmentsMeet(a, b, c, d) ==
  SegmentsMeetAt(a, b, c, d, Orient(a, b, c), Orient(a, b, d),
                 Orient(c, d, a), Orient(c, d, b))

\* Box2d::HasOverlap(const LineSegment2d&)
BoxHasOverlap(box, seg) ==
  \/ BoxDistanceToPoint(box, seg.start) = 0
  \/ BoxDistanceToPoint(box, seg.end) = 0
  \/ \E side \in BoxSides(box) :
       SegmentsMeet(seg.start, seg.end, side[1], side[2])

SetMin(S) == CHOOSE m \in S : \A k \in S : m <= k

\* Box2d::DistanceTo(const LineSegment2d&)
BoxDistanceTo(box, seg) ==
  IF seg.length <= kMathEpsilon THEN BoxDistanceToPoint(box, seg.start)
  ELSE IF BoxHasOverlap(box, seg) THEN 0
  ELSE SetMin({BoxDistanceToPoint(box, seg.start),
               BoxDistanceToPoint(box, seg.end)}
                \cup {SegDistanceTo(seg, c) : c \in BoxCorners(box)})

\* a variant of OverlapLoop that passes over the segments within the radius
RECURSIVE OverlapLoopOutside(_, _, _, _, _)
OverlapLoopOutside(p, box, width, radius_sqr, i) ==
  IF i >= Size(p.segments_) THEN FALSE
  ELSE IF SegDistanceSquareTo(p.segments_[i], box.center) < radius_sqr
  THEN OverlapLoopOutside(p, box, width, radius_sqr, i + 1)
  ELSE IF BoxDistanceTo(box, p.segments_[i]) <= width + kMathEpsilon THEN TRUE
  ELSE OverlapLoopOutside(p, box, width, radius_sqr, i + 1)

\* the for loop of Path::OverlapWith over the segments from i on
RECURSIVE OverlapLoop(_, _, _, _, _)
OverlapLoop(p, box, width, radius_sqr, i) ==
  IF i >= Size(p.segments_) THEN FALSE
  ELSE IF SegDistanceSquareTo(p.segments_[i], box.center) > radius_sqr
  THEN OverlapLoop(p, box, width, radius_sqr, i + 1)
  ELSE IF BoxDistanceTo(box, p.segments_[i]) <= width + kMathEpsilon THEN TRUE
  ELSE OverlapLoop(p, box, width, radius_sqr, i + 1)

\* PathApproximation::OverlapWith: the loop over the original segments
\* idx..last_segment_idx of one simplified segment
RECURSIVE ApproxOverlapOriginal(_, _, _, _, _, _, _)
ApproxOverlapOriginal(a, p, box, width, radius_sqr, w, idx) ==
  IF idx > w.last THEN FALSE
  ELSE IF a.min_original_projections_to_right_[idx] > w.max_original_projection
  THEN FALSE
  ELSE IF SegDistanceSquareTo(p.segments_[idx], box.center) > radius_sqr
  THEN ApproxOverlapOriginal(a, p, box, width, radius_sqr, w, idx + 1)
  ELSE IF BoxDistanceTo(box, p.segments_[idx]) <= width THEN TRUE
  ELSE ApproxOverlapOriginal(a, p, box, width, radius_sqr, w, idx + 1)

\* PathApproximation::OverlapWith: the loop over the simplified segments
\* from i on
RECURSIVE ApproxOverlapLoop(_, _, _, _, _, _)

\* one round over the window w of simplified segment i
ApproxOverlapWindow(a, p, box, width, radius, i, w) ==
  IF w.skip THEN ApproxOverlapLoop(a, p, box, width, radius, i + 1)
  ELSE IF ApproxOverlapOriginal(a, p, box, width, Sqr(radius), w, w.first)
  THEN TRUE
  ELSE ApproxOverlapLoop(a, p, box, width, radius, i + 1)

\* one round, given radius_sqr_with_error
ApproxOverlapRound(a, p, box, width, radius, i, radius_sqr_with_error) ==
  IF SegDistanceSquareTo(a.segments_[i], box.center) > radius_sqr_with_error
  THEN ApproxOverlapLoop(a, p, box, width, radius, i + 1)
  ELSE ApproxOverlapWindow(a, p, box, width, radius, i,
         NarrowWindow(a, i, box.center, radius_sqr_with_error))

ApproxOverlapLoop(a, p, box, width, radius, i) ==
  IF i >= Size(a.segments_) THEN FALSE
  ELSE ApproxOverlapRound(a, p, box, width, radius, i,
         Sqr(radius + a.max_error_per_segment_[i]))

\* PathApproximation::OverlapWith
ApproxOverlapWith(a, p, box, width) ==
  IF a.num_points_ = 0 THEN FALSE
  ELSE ApproxOverlapLoop(a, p, box, width, RDiv(box.diagonal, 2) + width, 0)

\* Path::OverlapWith
OverlapWith(p, box, width) ==
  IF p.use_path_approximation_
  THEN ApproxOverlapWith(p.approximation_, p, box, width)
  ELSE OverlapLoop(p, box, width,
         Sqr(RDiv(box.diagonal, 2) + width) + kMathEpsilon, 0)

(***************************************************************************)
(* The lane provider: the overlaps of a lane, by kind.  An overlap names   *)
(* its objects (the lane itself among them) and, when it has an            *)
(* ObjectOverlapInfo for the lane, the lane arclengths [start_s, end_s].   *)
(***************************************************************************)
OverlapKinds ==
  {"cross_lanes", "signals", "yield_signs", "stop_signs", "crosswalks",
   "junctions", "clear_areas", "speed_bumps"}

\* the ids of the objects that are not lanes
ObjectIds == {10, 11, 20}

OverlapInfo(objects, start_s, end_s) ==
  [objects |-> objects, has_info |-> TRUE, start_s |-> start_s,
   end_s |-> end_s]

\* an overlap whose get_object_overlap_info(lane id) is nullptr
OverlapNoInfo(objects) ==
  [objects |-> objects, has_info |-> FALSE, start_s |-> 0, end_s |-> 0]

Table2(a, b) == 0 :> a @@ 1 :> b
Table3(a, b, c) == 0 :> a @@ 1 :> b @@ 2 :> c

\* LaneInfo::crosswalks() of lane 1: crosswalk 10 over [3, 7] m; crosswalk
\* 11 in fragments 1.2 m, 2.0 m and 1.5 m apart
Lane1Crosswalks ==
  Table3(OverlapInfo(Table2(1, 10), 3 * FP, 7 * FP),
         OverlapInfo(Table2(1, 11), FP \div 4, (3 * FP) \div 4),
         OverlapInfo(Table2(11, 1), (3 * FP) \div 4 + (6 * FP) \div 5,
                     (5 * FP) \div 2))
    @@ (3 :> OverlapInfo(Table2(1, 11), (9 * FP) \div 2, 5 * FP))
    @@ (4 :> OverlapInfo(Table2(1, 11), (13 * FP) \div 2, (27 * FP) \div 4))
    @@ (5 :> OverlapNoInfo(Table2(2, 10)))

\* LaneInfo::crosswalks() of lane 2: crosswalks 10 and 11 start together
Lane2Crosswalks ==
  Table3(OverlapInfo(Table2(2, 10), FP \div 4, FP),
         OverlapInfo(Table2(2, 11), FP \div 4, FP \div 2),
         OverlapInfo(Table2(11, 2), (5 * FP) \div 2, 3 * FP))

LaneOverlaps(lane, kind) ==
  IF kind = "crosswalks"
  THEN IF lane = 1 THEN Lane1Crosswalks ELSE Lane2Crosswalks
  ELSE IF kind = "signals"
  THEN IF lane = 1
       THEN 0 :> OverlapInfo(Table2(1, 20), FP, FP + FP \div 4)
       ELSE 0 :> OverlapInfo(Table2(2, 20), FP \div 2, (3 * FP) \div 4)
  ELSE Empty

(***************************************************************************)
(* Path::GetAllOverlaps and Path::InitOverlaps.                            *)
(***************************************************************************)
\* const double kMinOverlapDistanceGap = 1.5
kMinOverlapDistanceGap == (3 * FP) \div 2

PathOverlap(object_id, start_s, end_s) ==
  [object_id |-> object_id, start_s |-> start_s, end_s |-> end_s]

\* the fragment emplace_back puts into overlaps_by_id[object_id]
Fragment(object_id, first, second) ==
  [object_id |-> object_id, first |-> first, second |-> second]

\* the loop over overlap->overlap().object(): a fragment for every object
\* that is not the lane
RECURSIVE FragmentsOfObjects(_, _, _, _, _, _)
FragmentsOfObjects(lane, objects, k, adjusted_start_s, adjusted_end_s, acc) ==
  IF k >= Size(objects) THEN acc
  ELSE FragmentsOfObjects(lane, objects, k + 1, adjusted_start_s,
         adjusted_end_s,
         IF objects[k] # lane
         THEN PushBack(acc, Fragment(objects[k], adjusted_start_s,
                                     adjusted_end_s))
         ELSE acc)

\* the body of the loop over get_overlaps_from_lane(lane), given ref_s
FragmentsOfOverlap(lane_segment, overlap, ref_s, acc) ==
  IF ~overlap.has_info THEN acc
  ELSE IF /\ overlap.start_s < lane_segment.end_s
          /\ overlap.end_s > lane_segment.start_s
  THEN FragmentsOfObjects(lane_segment.lane, overlap.objects, 0,
         Max(overlap.start_s, lane_segment.start_s) + ref_s,
         Min(overlap.end_s, lane_segment.end_s) + ref_s, acc)
  ELSE acc

\* the loop over get_overlaps_from_lane(lane) for one lane segment met at s
RECURSIVE FragmentsOfLane(_, _, _, _, _)
FragmentsOfLane(lane_segment, overlaps, k, s, acc) ==
  IF k >= Size(overlaps) THEN acc
  ELSE FragmentsOfLane(lane_segment, overlaps, k + 1, s,
         FragmentsOfOverlap(lane_segment, overlaps[k],
                            s - lane_segment.start_s, acc))

\* the loop over lane_segments_: s advances by every segment of a lane
RECURSIVE FragmentsLoop(_, _, _, _, _)
FragmentsLoop(lane_segments_, kind, i, s, acc) ==
  IF i >= Size(lane_segments_) THEN acc
  ELSE IF lane_segments_[i].lane = NullLane
  THEN FragmentsLoop(lane_segments_, kind, i + 1, s, acc)
  ELSE FragmentsLoop(lane_segments_, kind, i + 1,
         s + lane_segments_[i].end_s - lane_segments_[i].start_s,
         FragmentsOfLane(lane_segments_[i],
                         LaneOverlaps(lane_segments_[i].lane, kind), 0, s,
                         acc))

\* every fragment put into overlaps_by_id, in the order of emplace_back
OverlapFragments(lane_segments_, kind) ==
  FragmentsLoop(lane_segments_, kind, 0, 0, Empty)

\* operator< of std::pair<double, double>
PairLess(a, b) ==
  a.first < b.first \/ (a.first = b.first /\ a.second < b.second)

\* v put at position pos of the table
InsertAt(table, v, pos) ==
  [k \in 0..Size(table) |->
     IF k < pos THEN table[k] ELSE IF k = pos THEN v ELSE table[k - 1]]

\* std::sort(segments.begin(), segments.end()) on the fragments of
\* object_id among fragments[k..]
RECURSIVE SortedSegments(_, _, _, _)
SortedSegments(fragments, object_id, k, sorted) ==
  IF k >= Size(fragments) THEN sorted
  ELSE IF fragments[k].object_id # object_id
  THEN SortedSegments(fragments, object_id, k + 1, sorted)
  ELSE SortedSegments(fragments, object_id, k + 1,
         InsertAt(sorted, fragments[k],
           Cardinality({j \in DOMAIN sorted :
                          ~PairLess(fragments[k], sorted[j])})))

\* a variant of MergeSegment that merges whatever the gap
MergeSegmentAnyGap(object_id, segment, overlaps) ==
  IF /\ Size(overlaps) > 0
     /\ Back(overlaps).object_id = object_id
  THEN [overlaps EXCEPT ![Size(overlaps) - 1].end_s =
          Max(Back(overlaps).end_s, segment.second)]
  ELSE PushBack(overlaps,
                PathOverlap(object_id, segment.first, segment.second))

\* the body of the loop over the sorted segments of one object
MergeSegment(object_id, segment, overlaps) ==
  IF /\ Size(overlaps) > 0
     /\ Back(overlaps).object_id = object_id
     /\ segment.first - Back(overlaps).end_s <= kMinOverlapDistanceGap
  THEN [overlaps EXCEPT ![Size(overlaps) - 1].end_s =
          Max(Back(overlaps).end_s, segment.second)]
  ELSE PushBack(overlaps,
                PathOverlap(object_id, segment.first, segment.second))

\* the loop over the sorted segments of one object
RECURSIVE MergeSegments(_, _, _, _)
MergeSegments(object_id, segments, k, overlaps) ==
  IF k >= Size(segments) THEN overlaps
  ELSE MergeSegments(object_id, segments, k + 1,
                     MergeSegment(object_id, segments[k], overlaps))

\* the loop over overlaps_by_id, which the unordered_map iterates in
\* `order`; an object without fragments has no bucket
RECURSIVE MergeBuckets(_, _, _, _)
MergeBuckets(fragments, order, k, overlaps) ==
  IF k > Len(order) THEN overlaps
  ELSE MergeBuckets(fragments, order, k + 1,
         MergeSegments(order[k], SortedSegments(fragments, order[k], 0, Empty),
                       0, overlaps))

\* the final std::sort by start_s; entries of equal start_s keep their
\* bucket order
RECURSIVE SortedByStart(_, _, _)
SortedByStart(overlaps, k, sorted) ==
  IF k >= Size(overlaps) THEN sorted
  ELSE SortedByStart(overlaps, k + 1,
         InsertAt(sorted, overlaps[k],
           Cardinality({j \in DOMAIN sorted :
                          sorted[j].start_s <= overlaps[k].start_s})))

\* Path::GetAllOverlaps for the overlaps of one kind
GetAllOverlaps(lane_segments_, kind, order) ==
  SortedByStart(
    MergeBuckets(OverlapFragments(lane_segments_, kind), order, 1, Empty),
    0, Empty)

\* Path::InitOverlaps: the eight lists
InitOverlaps(lane_segments_, order) ==
  [lane_overlaps_ |-> GetAllOverlaps(lane_segments_, "cross_lanes", order),
   signal_overlaps_ |-> GetAllOverlaps(lane_segments_, "signals", order),
   yield_sign_overlaps_ |->
     GetAllOverlaps(lane_segments_, "yield_signs", order),
   stop_sign_overlaps_ |-> GetAllOverlaps(lane_segments_, "stop_signs", order),
   crosswalk_overlaps_ |-> GetAllOverlaps(lane_segments_, "crosswalks", order),
   junction_overlaps_ |-> GetAllOverlaps(lane_segments_, "junctions", order),
   clear_area_overlaps_ |->
     GetAllOverlaps(lane_segments_, "clear_areas", order),
   speed_bump_overlaps_ |->
     GetAllOverlaps(lane_segments_, "speed_bumps", order)]

(***************************************************************************)
(* The Path object.                                                        *)
(***************************************************************************)

\* the members set by InitPoints and InitLaneSegments
PathTables(path_points, ip, ils) ==
  [path_points_ |-> path_points,
   num_points_ |-> ip.num_points_,
   num_segments_ |-> ip.num_segments_,
   accumulated_s_ |-> ip.accumulated_s_,
   segments_ |-> ip.segments_,
   unit_directions_ |-> ip.unit_directions_,
   length_ |-> ip.length_,
   num_sample_points_ |-> ip.num_sample_points_,
   lane_segments_ |-> ils.lane_segments_,
   lane_segments_to_next_point_ |-> ils.lane_segments_to_next_point_]

\* Path::Init: InitPointIndex on the members p1 set so far
WithPointIndex(p1) ==
  [k \in (DOMAIN p1) \cup {"last_point_index_"} |->
     IF k = "last_point_index_" THEN InitPointIndex(p1) ELSE p1[k]]

\* Path::Path: the widths w and the approximation added to the members p2
WithWidthAndApproximation(p2, w, max_approximation_error) ==
  [k \in (DOMAIN p2) \cup {"left_width_", "right_width_",
                           "use_path_approximation_", "approximation_"} |->
     IF k = "left_width_" THEN w.left_width_
     ELSE IF k = "right_width_" THEN w.right_width_
     ELSE IF k = "use_path_approximation_" THEN max_approximation_error > 0
     ELSE IF k = "approximation_"
     THEN IF max_approximation_error > 0
          THEN PathApproximation(p2.path_points_, max_approximation_error)
          ELSE NoApproximation
     ELSE p2[k]]

\* Path::Init: InitWidth on the members p2 set so far
WithWidth(p2, max_approximation_error) ==
  WithWidthAndApproximation(p2, InitWidth(p2), max_approximation_error)

\* Path::Init, then the PathApproximation when max_approximation_error > 0
PathCtor(path_points, lane_segments, max_approximation_error) ==
  WithWidth(
    WithPointIndex(
      PathTables(path_points, InitPoints(path_points),
                 InitLaneSegments(path_points, lane_segments))),
    max_approximation_error)

\* Path::Init with InitOverlaps: the members p and the eight overlap lists
WithOverlaps(p, o) ==
  [k \in (DOMAIN p) \cup (DOMAIN o) |-> IF k \in DOMAIN o THEN o[k] ELSE p[k]]

\* Path::Path, the unordered_maps of GetAllOverlaps iterating in `order`
PathCtorOrdered(path_points, lane_segments, max_approximation_error, order) ==
  WithOverlaps(PathCtor(path_points, lane_segments, max_approximation_error),
    InitOverlaps(
      InitLaneSegments(path_points, lane_segments).lane_segments_, order))

\* CHECK_GE(num_points_, 2) of InitPoints and the CHECK_LEs of
\* InitProjections: the conditions under which construction does not abort
CtorChecks(path_points, max_approximation_error) ==
  /\ Size(path_points) >= 2
  /\ max_approximation_error > 0 =>
       InitProjectionsChecks(
         PathApproximation(path_points, max_approximation_error),
         Size(path_points))

(***************************************************************************)
(* Inputs.                                                                 *)
(***************************************************************************)
\* the most points a generated path has
MaxPoints == 3
\* the grid pitch of the generated points
Step == 2 * kSampleDistance

\* candidate path points, in grid steps
Corners == {<<0, 0>>, <<1, 0>>, <<2, 0>>, <<1, 1>>}

\* the point sequences of at most MaxPoints candidate points
Shapes ==
  UNION {[0..(n - 1) -> {Vec2d(c[1] * Step, c[2] * Step) : c \in Corners}] :
           n \in 0..MaxPoints}

\* the straight path (0,0) -> (10,0) metres
StraightShape == [i \in 0..1 |-> Vec2d(i * 10 * FP, 0)]

\* no lane waypoints, or every point on lane 1 at its distance from the start
WaypointModes == {"none", "lane"}

Annotate(shape, mode) ==
  [i \in DOMAIN shape |->
     MapPathPoint(shape[i].x, shape[i].y, 0,
       IF mode = "lane"
       THEN PushBack(Empty, LaneWaypoint(1, InitPointsS(shape, i)))
       ELSE Empty)]

\* max_approximation_error: absent (0) or 2 metres
Tolerances == {0, 2 * FP}

\* query points
QueryPoints ==
  {Vec2d(x * Step, y * Step) : x \in -1..3, y \in -1..2}
    \cup {Vec2d(5 * FP, FP), Vec2d(-2 * FP, 0)}

\* query arclengths: every half sample from one sample before the start, a
\* quarter of the way between two samples, and places on the straight path
MaxHalfSamples == 20
QueryS == {j * (kSampleDistance \div 2) : j \in -2..MaxHalfSamples}
            \cup {3 * kSampleDistance + kSampleDistance \div 4}
            \cup {5 * FP, 10 * FP, 11 * FP}

\* the orders in which an unordered_map may iterate over the object ids
BucketOrders ==
  {o \in [1..Cardinality(ObjectIds) -> ObjectIds] :
     \A i, j \in DOMAIN o : i # j => o[i] # o[j]}

\* paths along two lanes on the x axis: lane 1 from x = 0, lane 2 from
\* x = Lane2Start; a point carries no waypoint, its waypoint on either lane,
\* or both
MaxOverlapPoints == 3
Lane2Start == 4 * FP
Stations == {0, 2 * FP, 4 * FP, 5 * FP, 6 * FP, 8 * FP}

WaypointsAt(x) ==
  {Empty, 0 :> LaneWaypoint(1, x)}
    \cup (IF x >= Lane2Start
          THEN {0 :> LaneWaypoint(2, x - Lane2Start),
                Table2(LaneWaypoint(1, x), LaneWaypoint(2, x - Lane2Start))}
          ELSE {})

StationPoints ==
  UNION {{MapPathPoint(x, 0, 0, w) : w \in WaypointsAt(x)} : x \in Stations}

OverlapPaths ==
  UNION {{f \in [0..(n - 1) -> StationPoints] :
            \A i \in 1..(n - 1) : f[i - 1].x < f[i].x} :
           n \in 0..MaxOverlapPoints}

\* paths along the x axis whose points lie closer together than two samples:
\* consecutive points are a gap of IndexGaps apart
MaxIndexPoints == 5
IndexGaps == {0, kSampleDistance \div 4, kSampleDistance \div 2,
              (3 * kSampleDistance) \div 4}

RECURSIVE SumOfGaps(_, _)
SumOfGaps(gaps, i) == IF i = 0 THEN 0 ELSE SumOfGaps(gaps, i - 1) + gaps[i]

IndexPaths ==
  UNION {{[i \in 0..n |-> MapPathPoint(SumOfGaps(gaps, i), 0, 0, Empty)] :
            gaps \in [1..n -> IndexGaps]} :
           n \in 0..(MaxIndexPoints - 1)}

\* paths that advance 1 m in x from point to point and lie 0.25 m to either
\* side of the x axis or on it, simplified with a tolerance of 0.3 m or 2 m
MaxDilutePoints == 5
DiluteOffsets == {-kSampleDistance, 0, kSampleDistance}
DiluteTolerances == {(3 * FP) \div 10, 2 * FP}

DilutePaths ==
  UNION {{[i \in 0..(n - 1) |-> MapPathPoint(i * FP, y[i], 0, Empty)] :
            y \in [0..(n - 1) -> DiluteOffsets]} :
           n \in 0..MaxDilutePoints}

\* the boxes and widths of OverlapWith queries
Boxes ==
  {Box2d(Vec2d(x * Step, y * Step), 0) : x \in {0, 2}, y \in {-1, 0, 1}}
    \cup {Box2d(Vec2d(0, 2 * Step), Step \div 2),
          Box2d(Vec2d(3 * Step, -Step), Step \div 2),
          Box2d(Vec2d(4 * Step, 0), Step)}
Widths == {0, Step \div 2, Step, 2 * Step}

\* the values a caller's output variables hold before a call
OutBefore == [accumulate_s |-> 7, lateral |-> -7, min_distance |-> 7]
WidthBefore == [left_width |-> 7, right_width |-> 7]

\* the output pointers a caller passes as nullptr, and the point it does so with
NullSets == {{}, {"accumulate_s"}, {"lateral"}, {"min_distance"}}
NullPoint == Vec2d(0, Step)
ProjectionArgs ==
  {[point |-> q, nulls |-> {}] : q \in QueryPoints}
    \cup {[point |-> NullPoint, nulls |-> n] : n \in NullSets}

(***************************************************************************)
(* The state machine: a caller constructs one Path and then queries it.    *)
(***************************************************************************)
VARIABLES path_points, max_approximation_error, phase, path, call

vars == <<path_points, max_approximation_error, phase, path, call>>

NoPath == [num_points_ |-> 0]
NoCall == [op |-> "none"]

Init ==
  /\ path_points \in {Annotate(s, m) : s \in Shapes \cup {StraightShape},
                                       m \in WaypointModes}
  /\ max_approximation_error \in Tolerances
  /\ phase = "new"
  /\ path = NoPath
  /\ call = NoCall

\* Path::Path(path_points, lane_segments, max_approximation_error)
Construct ==
  /\ phase = "new"
  /\ IF CtorChecks(path_points, max_approximation_error)
     THEN /\ phase' = "ready"
          /\ \E order \in BucketOrders :
               path' = PathCtorOrdered(path_points, Empty,
                                       max_approximation_error, order)
     ELSE /\ phase' = "aborted"
          /\ path' = NoPath
  /\ UNCHANGED <<path_points, max_approximation_error, call>>

\* the construction of the paths along the two lanes
OverlapsInit ==
  /\ path_points \in OverlapPaths
  /\ max_approximation_error = 0
  /\ phase = "new"
  /\ path = NoPath
  /\ call = NoCall

SpecOverlaps == OverlapsInit /\ [][Construct]_vars

\* the construction of the paths of close points
IndexInit ==
  /\ path_points \in IndexPaths
  /\ max_approximation_error = 0
  /\ phase = "new"
  /\ path = NoPath
  /\ call = NoCall

\* the construction of the paths to simplify
DiluteInit ==
  /\ path_points \in DilutePaths
  /\ max_approximation_error \in DiluteTolerances
  /\ phase = "new"
  /\ path = NoPath
  /\ call = NoCall

\* Path::Path up to the return of InitDilute in the PathApproximation it
\* constructs
ConstructToDiluted ==
  /\ phase = "new"
  /\ Size(path_points) >= 2
  /\ max_approximation_error > 0
  /\ phase' = "diluted"
  /\ \E order \in BucketOrders :
       path' = [PathCtorOrdered(path_points, Empty, 0, order)
                  EXCEPT !.use_path_approximation_ = TRUE,
                         !.approximation_ =
                           PathApproximationDiluted(path_points,
                                                    max_approximation_error)]
  /\ UNCHANGED <<path_points, max_approximation_error, call>>

\* Path::Path from there on: InitProjections
ConstructFromDiluted ==
  /\ phase = "diluted"
  /\ IF CtorChecks(path_points, max_approximation_error)
     THEN /\ phase' = "ready"
          /\ \E order \in BucketOrders :
               path' = PathCtorOrdered(path_points, Empty,
                                       max_approximation_error, order)
     ELSE /\ phase' = "aborted"
          /\ path' = NoPath
  /\ UNCHANGED <<path_points, max_approximation_error, call>>

NextDilute ==
  \/ ConstructToDiluted
  \/ ConstructFromDiluted

SpecDilute == DiluteInit /\ [][NextDilute]_vars

Idle == phase = "ready" /\ call.op = "none"

CallGetIndexFromS ==
  /\ Idle
  /\ \E s \in QueryS :
       call' = [op |-> "GetIndexFromS", s |-> s, ret |-> GetIndexFromS(path, s)]
  /\ UNCHANGED <<path_points, max_approximation_error, phase, path>>

\* GetSFromIndex applied to the index the previous GetIndexFromS returned
CallGetSFromIndex ==
  /\ phase = "ready"
  /\ call.op = "GetIndexFromS"
  /\ call' = [op |-> "GetSFromIndex", s |-> call.s, index |-> call.ret,
              ret |-> GetSFromIndex(path, call.ret)]
  /\ UNCHANGED <<path_points, max_approximation_error, phase, path>>

CallGetSmoothPoint ==
  /\ Idle
  /\ \E s \in QueryS :
       call' = [op |-> "GetSmoothPoint", s |-> s, ret |-> GetSmoothPoint(path, s)]
  /\ UNCHANGED <<path_points, max_approximation_error, phase, path>>

\* what the caller holds after a projection query
ProjectionCall(op, a, r) ==
  [op |-> op, point |-> a.point, nulls |-> a.nulls, before |-> OutBefore,
   ret |-> r.ret, out |-> r.out]

\* a variant of CallGetProjection in which the query keeps its result in the
\* Path, as a cache of the last projection
CallGetProjectionCached ==
  /\ Idle
  /\ \E a \in ProjectionArgs :
       /\ call' = ProjectionCall("GetProjection", a,
                    GetProjection(path, a.point, OutBefore, a.nulls))
       /\ path' = [path EXCEPT !.length_ = call'.out.accumulate_s]
  /\ UNCHANGED <<path_points, max_approximation_error, phase>>

CallGetProjection ==
  /\ Idle
  /\ \E a \in ProjectionArgs :
       call' = ProjectionCall("GetProjection", a,
                 GetProjection(path, a.point, OutBefore, a.nulls))
  /\ UNCHANGED <<path_points, max_approximation_error, phase, path>>

CallGetNearestPoint ==
  /\ Idle
  /\ \E a \in ProjectionArgs :
       call' = ProjectionCall("GetNearestPoint", a,
                 GetNearestPoint(path, a.point, OutBefore, a.nulls))
  /\ UNCHANGED <<path_points, max_approximation_error, phase, path>>

\* what the caller holds after GetWidth
WidthCall(s, r) ==
  [op |-> "GetWidth", s |-> s, before |-> WidthBefore, ret |-> r.ret, w |-> r.w]

CallGetWidth ==
  /\ Idle
  /\ \E s \in QueryS : call' = WidthCall(s, GetWidth(path, s, WidthBefore))
  /\ UNCHANGED <<path_points, max_approximation_error, phase, path>>

CallGetLeftWidth ==
  /\ Idle
  /\ \E s \in QueryS :
       call' = [op |-> "GetLeftWidth", s |-> s, ret |-> GetLeftWidth(path, s)]
  /\ UNCHANGED <<path_points, max_approximation_error, phase, path>>

CallGetRightWidth ==
  /\ Idle
  /\ \E s \in QueryS :
       call' = [op |-> "GetRightWidth", s |-> s, ret |-> GetRightWidth(path, s)]
  /\ UNCHANGED <<path_points, max_approximation_error, phase, path>>

CallIsOnPath ==
  /\ Idle
  /\ \E point \in QueryPoints :
       call' = [op |-> "IsOnPath", point |-> point, ret |-> IsOnPath(path, point)]
  /\ UNCHANGED <<path_points, max_approximation_error, phase, path>>

CallOverlapWith ==
  /\ Idle
  /\ \E box \in Boxes, width \in Widths :
       call' = [op |-> "OverlapWith", box |-> box, width |-> width,
                ret |-> OverlapWith(path, box, width)]
  /\ UNCHANGED <<path_points, max_approximation_error, phase, path>>

\* the caller has read the results of its last query
Return ==
  /\ phase = "ready"
  /\ call.op # "none"
  /\ call' = NoCall
  /\ UNCHANGED <<path_points, max_approximation_error, phase, path>>

Next ==
  \/ Construct
  \/ CallGetIndexFromS
  \/ CallGetSFromIndex
  \/ CallGetSmoothPoint
  \/ CallGetProjection
  \/ CallGetNearestPoint
  \/ CallGetWidth
  \/ CallGetLeftWidth
  \/ CallGetRightWidth
  \/ CallIsOnPath
  \/ CallOverlapWith
  \/ Return

Spec == Init /\ [][Next]_vars

\* the index queries on the paths of close points
NextIndex ==
  \/ Construct
  \/ CallGetIndexFromS
  \/ CallGetSFromIndex
  \/ Return

SpecIndex == IndexInit /\ [][NextIndex]_vars

(***************************************************************************)
(* Properties.                                                             *)
(***************************************************************************)
Ready == phase = "ready"

\* the Path is the straight path (0,0) -> (10,0) metres
IsStraight ==
  /\ path.num_points_ = 2
  /\ Vec2d(path.path_points_[0].x, path.path_points_[0].y) = Vec2d(0, 0)
  /\ Vec2d(path.path_points_[1].x, path.path_points_[1].y) = Vec2d(10 * FP, 0)

FirstSegment == path.segments_[0]
LastSegment == path.segments_[path.num_segments_ - 1]

\* twice the signed area of (segment start, segment end, point): positive when
\* the point is to the left of the direction of travel
SignedArea(segment, point) ==
  (segment.end.x - segment.start.x) * (point.y - segment.start.y)
    - (segment.end.y - segment.start.y) * (point.x - segment.start.x)

\* C1: for every s with 0 <= s <= length, GetSFromIndex(GetIndexFromS(s))
\* gives back s.
C1_RoundTrip ==
  (Ready /\ call.op = "GetSFromIndex" /\ 0 <= call.s /\ call.s <= path.length_)
    => call.ret = call.s

\* the round trip has been made on an s strictly inside a segment that is not
\* the first
C1_Witness ==
  /\ Ready
  /\ call.op = "GetSFromIndex"
  /\ 0 < call.s /\ call.s < path.length_
  /\ call.index.id > 0
  /\ call.index.offset > 0
  /\ call.ret = call.s

\* the result GetProjection gives on the same Path with the approximation
\* switched off
BruteForce ==
  GetProjection([path EXCEPT !.use_path_approximation_ = FALSE],
                call.point, call.before, call.nulls)

\* C2: with the approximation enabled GetProjection returns the same
\* accumulate_s, lateral and min_distance as the scan over all segments.
C2_ApproximationAgrees ==
  (Ready /\ call.op = "GetProjection" /\ path.use_path_approximation_)
    => (call.ret = BruteForce.ret /\ call.out = BruteForce.out)

\* C3: when GetProjection or GetNearestPoint returns false the caller's
\* accumulate_s, lateral and min_distance hold the values they held before
\* the call.
C3_OutputsUntouched ==
  (Ready /\ call.op \in {"GetProjection", "GetNearestPoint"} /\ ~call.ret)
    => call.out = call.before

\* a projection through the approximation has failed
C3_Witness ==
  /\ Ready
  /\ call.op \in {"GetProjection", "GetNearestPoint"}
  /\ path.use_path_approximation_
  /\ ~call.ret
  /\ call.out = call.before

\* C4: construction from fewer than 2 points aborts and leaves no Path;
\* construction from exactly 2 points, coincident or not, succeeds with
\* num_sample_points_ = floor(length / kSampleDistance) + 1 >= 1 and with
\* left_width_, right_width_ and last_point_index_ of that size.
C4_Construction ==
  /\ phase = "aborted" => (Size(path_points) < 2 /\ path = NoPath)
  /\ (phase # "new" /\ Size(path_points) < 2) => phase = "aborted"
  /\ (phase # "new" /\ Size(path_points) = 2) =>
       /\ Ready
       /\ path.num_sample_points_ = (path.length_ \div kSampleDistance) + 1
       /\ path.num_sample_points_ >= 1
       /\ Size(path.left_width_) = path.num_sample_points_
       /\ Size(path.right_width_) = path.num_sample_points_
       /\ Size(path.last_point_index_) = path.num_sample_points_

\* a Path has been constructed from two coincident points
C4_Witness ==
  /\ Ready
  /\ Size(path_points) = 2
  /\ path_points[0].x = path_points[1].x
  /\ path_points[0].y = path_points[1].y
  /\ path.length_ = 0
  /\ path.num_sample_points_ = 1

\* C5: once the Path is constructed no query changes it: the path points and
\* every derived table stay as construction left them.
C5_QueriesKeepTables ==
  [][Ready => (path' = path /\ path_points' = path_points /\ phase' = phase
                 /\ max_approximation_error' = max_approximation_error)]_vars

\* a query has run on a Path with the approximation and with lane widths
C5_Witness ==
  /\ Ready
  /\ call.op = "GetNearestPoint"
  /\ call.ret
  /\ path.use_path_approximation_
  /\ path.num_points_ = 3
  /\ path.left_width_[0] > 0

\* a successful GetProjection, through the approximation or not
Projected == Ready /\ call.op = "GetProjection" /\ call.ret

\* the point's nearest position is the start of the path, before which its
\* projection on the first segment falls
BeyondStart ==
  /\ ProjectOntoUnit(FirstSegment, call.point) < 0
  /\ \A i \in DOMAIN path.segments_ :
       SegDistanceTo(FirstSegment, call.point)
         <= SegDistanceTo(path.segments_[i], call.point)

\* the point's nearest position is the end of the path, past which its
\* projection on the last segment falls
BeyondEnd ==
  /\ ProjectOntoUnit(LastSegment, call.point) > LastSegment.length
  /\ \A i \in DOMAIN path.segments_ :
       SegDistanceTo(LastSegment, call.point)
         <= SegDistanceTo(path.segments_[i], call.point)

\* C6 as stated: beyond an open end GetProjection reports the arclength
\* clamped to that end and a lateral equal to the signed axial overshoot, so
\* that on the straight path the point (-2,0) gives (0.0, -2.0, 2.0).
C6_OpenEndClamped ==
  Projected =>
    /\ BeyondStart =>
         /\ call.out.accumulate_s = 0
         /\ call.out.lateral = ProjectOntoUnit(FirstSegment, call.point)
    /\ (BeyondEnd /\ ~BeyondStart) =>
         /\ call.out.accumulate_s = path.length_
         /\ call.out.lateral =
              ProjectOntoUnit(LastSegment, call.point) - LastSegment.length
    /\ (IsStraight /\ call.point = Vec2d(-2 * FP, 0)) =>
         call.out = [accumulate_s |-> 0, lateral |-> -2 * FP,
                     min_distance |-> 2 * FP]

\* C6: when GetProjection places a point beyond an open end it reports the
\* arclength unclamped (the end segment's accumulated_s plus the projection:
\* negative before the start, more than length past the end) and a lateral
\* equal to the signed perpendicular offset from the end segment's line; on
\* the straight path the point (-2,0) gives (-2.0, 0.0, 2.0).
C6_OpenEndUnclamped ==
  Projected =>
    /\ call.out.accumulate_s < 0 =>
         /\ call.out.accumulate_s = ProjectOntoUnit(FirstSegment, call.point)
         /\ call.out.lateral = ProductOntoUnit(FirstSegment, call.point)
    /\ call.out.accumulate_s > path.length_ =>
         /\ call.out.accumulate_s =
              path.accumulated_s_[path.num_segments_ - 1]
                + ProjectOntoUnit(LastSegment, call.point)
         /\ call.out.lateral = ProductOntoUnit(LastSegment, call.point)
    /\ (~path.use_path_approximation_ /\ BeyondStart) =>
         call.out.accumulate_s < 0
    /\ (IsStraight /\ call.point = Vec2d(-2 * FP, 0)) =>
         call.out = [accumulate_s |-> -2 * FP, lateral |-> 0,
                     min_distance |-> 2 * FP]

\* the point (-2,0) has been projected on the straight path
C6_Witness ==
  /\ Projected
  /\ IsStraight
  /\ call.point = Vec2d(-2 * FP, 0)
  /\ call.out.accumulate_s = -2 * FP
  /\ call.out.lateral = 0

Unclamped == GetProjection(path, call.point, call.before, call.nulls).out

\* C8: a successful GetNearestPoint reports 0 <= accumulate_s <= length; when
\* the projection's arclength is below 0 or above length the arclength is set
\* to that end and min_distance is the Euclidean distance to the first or the
\* last path point; otherwise the projection's outputs are returned.
C8_NearestClamped ==
  (Ready /\ call.op = "GetNearestPoint" /\ call.ret) =>
    /\ 0 <= call.out.accumulate_s
    /\ call.out.accumulate_s <= path.length_
    /\ call.out.lateral = Unclamped.lateral
    /\ Unclamped.accumulate_s < 0 =>
         /\ call.out.accumulate_s = 0
         /\ call.out.min_distance =
              Hypot(call.point.x - path.path_points_[0].x,
                    call.point.y - path.path_points_[0].y)
    /\ Unclamped.accumulate_s > path.length_ =>
         /\ call.out.accumulate_s = path.length_
         /\ call.out.min_distance =
              Hypot(call.point.x - path.path_points_[path.num_points_ - 1].x,
                    call.point.y - path.path_points_[path.num_points_ - 1].y)
    /\ (0 <= Unclamped.accumulate_s /\ Unclamped.accumulate_s <= path.length_) =>
         call.out = Unclamped

\* GetNearestPoint has clamped to the end of the path a point that is off the
\* last segment's line, where the recomputed distance is not the projection's
C8_Witness ==
  /\ Ready
  /\ call.op = "GetNearestPoint"
  /\ call.ret
  /\ Unclamped.accumulate_s > path.length_
  /\ call.out.accumulate_s = path.length_
  /\ call.out.lateral # 0
  /\ call.out.min_distance > Abs(call.out.lateral)

\* the index of the sample at or before s, and the position of the last sample
SampleIndex(s) == s \div kSampleDistance
LastSample == path.num_sample_points_ - 1

\* v is what the sample table gives at s: the first sample for s <= 0, the
\* last sample from the last sample's position on, and between two samples
\* the value on the line through them
IsSampleAt(samples, s, v) ==
  IF s <= 0 THEN v = samples[0]
  ELSE IF SampleIndex(s) >= LastSample THEN v = samples[LastSample]
  ELSE kSampleDistance * (v - samples[SampleIndex(s)]) =
         (samples[SampleIndex(s) + 1] - samples[SampleIndex(s)])
           * (s - SampleIndex(s) * kSampleDistance)

\* C9 as stated: GetWidth, GetLeftWidth and GetRightWidth all return the first
\* sample for s before 0, the last sample for s past the last sample and the
\* interpolation of the two neighbouring samples in between.
C9_WidthClampedAll ==
  /\ (Ready /\ call.op = "GetLeftWidth") =>
       IsSampleAt(path.left_width_, call.s, call.ret)
  /\ (Ready /\ call.op = "GetRightWidth") =>
       IsSampleAt(path.right_width_, call.s, call.ret)
  /\ (Ready /\ call.op = "GetWidth") =>
       /\ call.ret
       /\ IsSampleAt(path.left_width_, call.s, call.w.left_width)
       /\ IsSampleAt(path.right_width_, call.s, call.w.right_width)

\* C9: GetLeftWidth and GetRightWidth return the first sample for s before 0,
\* the last sample for s past the last sample and the interpolation of the
\* two neighbouring samples in between; GetWidth returns these two values for
\* 0 <= s <= length, and for s < 0 or s > length it returns false and leaves
\* both outputs as they were.
C9_WidthSampled ==
  /\ (Ready /\ call.op = "GetLeftWidth") =>
       IsSampleAt(path.left_width_, call.s, call.ret)
  /\ (Ready /\ call.op = "GetRightWidth") =>
       IsSampleAt(path.right_width_, call.s, call.ret)
  /\ (Ready /\ call.op = "GetWidth") =>
       IF 0 <= call.s /\ call.s <= path.length_
       THEN /\ call.ret
            /\ IsSampleAt(path.left_width_, call.s, call.w.left_width)
            /\ IsSampleAt(path.right_width_, call.s, call.w.right_width)
       ELSE /\ ~call.ret
            /\ call.w = call.before

\* GetLeftWidth has interpolated between two samples of different width, at
\* a place that is not midway between them
C9_Witness ==
  /\ Ready
  /\ call.op = "GetLeftWidth"
  /\ 0 < call.s
  /\ SampleIndex(call.s) < LastSample
  /\ path.left_width_[SampleIndex(call.s)]
       # path.left_width_[SampleIndex(call.s) + 1]
  /\ 4 * (call.s - SampleIndex(call.s) * kSampleDistance) = kSampleDistance
  /\ call.ret # path.left_width_[SampleIndex(call.s)]

\* the projection IsOnPath starts from
OnPathProjection ==
  GetProjection(path, call.point,
                [accumulate_s |-> 0, lateral |-> 0, min_distance |-> 0], {})

\* the point's lateral lies strictly between -right width and left width, the
\* widths being the sample tables' values at the projected arclength, with the
\* first or the last sample outside the sampled range
WithinWidths ==
  /\ OnPathProjection.out.lateral
       < GetLeftWidth(path, OnPathProjection.out.accumulate_s)
  /\ OnPathProjection.out.lateral
       > -GetRightWidth(path, OnPathProjection.out.accumulate_s)

\* C10 as stated: IsOnPath is true exactly when GetProjection succeeds and
\* -right_width < lateral < left_width, also where the projected arclength is
\* outside [0, length].
C10_OnPathAnywhere ==
  (Ready /\ call.op = "IsOnPath") =>
    (call.ret <=> (OnPathProjection.ret /\ WithinWidths))

\* C10: IsOnPath is true exactly when GetProjection succeeds, the projected
\* arclength lies in [0, length] and -right_width < lateral < left_width at
\* that arclength; a point projected before the start or past the end is
\* never on the path.
C10_OnPathInRange ==
  (Ready /\ call.op = "IsOnPath") =>
    (call.ret <=>
       /\ OnPathProjection.ret
       /\ 0 <= OnPathProjection.out.accumulate_s
       /\ OnPathProjection.out.accumulate_s <= path.length_
       /\ WithinWidths)

\* IsOnPath has rejected a point that lies within the widths of the first
\* sample and projects before the start
C10_Witness ==
  /\ Ready
  /\ call.op = "IsOnPath"
  /\ ~call.ret
  /\ OnPathProjection.ret
  /\ OnPathProjection.out.accumulate_s < 0
  /\ WithinWidths

(***************************************************************************)
(* The overlap lists.                                                      *)
(***************************************************************************)
\* the list InitOverlaps fills for the overlaps of a kind
OverlapsOfKind(kind) ==
  IF kind = "cross_lanes" THEN path.lane_overlaps_
  ELSE IF kind = "signals" THEN path.signal_overlaps_
  ELSE IF kind = "yield_signs" THEN path.yield_sign_overlaps_
  ELSE IF kind = "stop_signs" THEN path.stop_sign_overlaps_
  ELSE IF kind = "crosswalks" THEN path.crosswalk_overlaps_
  ELSE IF kind = "junctions" THEN path.junction_overlaps_
  ELSE IF kind = "clear_areas" THEN path.clear_area_overlaps_
  ELSE path.speed_bump_overlaps_

\* the fragments gathered from the path's lane segments, as a set
FragmentSet(kind) ==
  {OverlapFragments(path.lane_segments_, kind)[k] :
     k \in DOMAIN OverlapFragments(path.lane_segments_, kind)}

\* fragment f lies within entry e of the same object
FragmentIn(f, e) ==
  /\ f.object_id = e.object_id
  /\ e.start_s <= f.first
  /\ f.second <= e.end_s

\* the entries of one list, given the fragments they were merged from
MergedFrom(overlaps, fragments) ==
  \* two entries of one object are more than 1.5 m apart
  /\ \A i, j \in DOMAIN overlaps :
       (/\ i # j
        /\ overlaps[i].object_id = overlaps[j].object_id
        /\ overlaps[i].start_s <= overlaps[j].start_s)
         => overlaps[j].start_s - overlaps[i].end_s > kMinOverlapDistanceGap
  \* every fragment lies within an entry of its object
  /\ \A f \in fragments : \E i \in DOMAIN overlaps : FragmentIn(f, overlaps[i])
  \* an entry spans fragments of its own object, from the start of one to
  \* the end of one, each no more than 1.5 m after the end of another that
  \* starts no later
  /\ \A i \in DOMAIN overlaps :
       /\ \E f \in fragments :
            FragmentIn(f, overlaps[i]) /\ f.first = overlaps[i].start_s
       /\ \E f \in fragments :
            FragmentIn(f, overlaps[i]) /\ f.second = overlaps[i].end_s
       /\ \A f \in fragments :
            (FragmentIn(f, overlaps[i]) /\ f.first > overlaps[i].start_s)
              => \E g \in fragments :
                   /\ FragmentIn(g, overlaps[i])
                   /\ g.first <= f.first
                   /\ g # f
                   /\ f.first - g.second <= kMinOverlapDistanceGap
  \* the list is sorted by start_s
  /\ \A i, j \in DOMAIN overlaps :
       i < j => overlaps[i].start_s <= overlaps[j].start_s

\* C11: in every overlap list made at construction, fragments of one object
\* no more than 1.5 m apart are merged into one entry spanning them,
\* fragments further apart stay separate entries, two entries of one object
\* are more than 1.5 m apart, and fragments of different objects are never
\* merged.
C11_FragmentsMerged ==
  Ready =>
    \A kind \in OverlapKinds :
      MergedFrom(OverlapsOfKind(kind), FragmentSet(kind))

\* a path along lane 1 from 0 to 8 m: crosswalk 11 has the entry
\* [0.25, 2.5] m merged over a gap of 1.2 m and, 2 m further on, the
\* separate entry [4.5, 6.75] m merged over a gap of 1.5 m
C11_Witness ==
  /\ Ready
  /\ \E i, j \in DOMAIN path.crosswalk_overlaps_ :
       /\ path.crosswalk_overlaps_[i] =
            PathOverlap(11, FP \div 4, (5 * FP) \div 2)
       /\ path.crosswalk_overlaps_[j] =
            PathOverlap(11, (9 * FP) \div 2, (27 * FP) \div 4)
  /\ \E f \in FragmentSet("crosswalks") :
       f.object_id = 11 /\ f.first = (3 * FP) \div 4 + (6 * FP) \div 5

\* the lane-level overlaps of a kind that reach into a lane segment
OverlapsReaching(lane_segment, kind) ==
  {LaneOverlaps(lane_segment.lane, kind)[k] :
     k \in {j \in DOMAIN LaneOverlaps(lane_segment.lane, kind) :
              /\ LaneOverlaps(lane_segment.lane, kind)[j].has_info
              /\ LaneOverlaps(lane_segment.lane, kind)[j].start_s
                   < lane_segment.end_s
              /\ LaneOverlaps(lane_segment.lane, kind)[j].end_s
                   > lane_segment.start_s}}

\* an overlap clipped to a lane segment and moved by off, for each object
\* other than the lane
ClippedAt(lane_segment, overlap, off) ==
  {Fragment(overlap.objects[k],
            Max(overlap.start_s, lane_segment.start_s) + off,
            Min(overlap.end_s, lane_segment.end_s) + off) :
     k \in {j \in DOMAIN overlap.objects :
              overlap.objects[j] # lane_segment.lane}}

\* the fragments of the lane segment from point i to point i + 1, which
\* begins at the path arclength accumulated_s_[i]
FragmentsOfPair(i, kind) ==
  UNION {ClippedAt(path.lane_segments_to_next_point_[i], overlap,
                   path.accumulated_s_[i]
                     - path.lane_segments_to_next_point_[i].start_s) :
           overlap \in
             OverlapsReaching(path.lane_segments_to_next_point_[i], kind)}

\* the pairs of consecutive points that have a lane segment
PairsOnLane ==
  {i \in 0..(path.num_segments_ - 1) :
     path.lane_segments_to_next_point_[i].lane # NullLane}

FragmentsInPathCoordinates(kind) ==
  /\ FragmentSet(kind) = UNION {FragmentsOfPair(i, kind) : i \in PairsOnLane}
  /\ \A f \in FragmentSet(kind) :
       f.first < f.second /\ 0 <= f.first /\ f.second <= path.length_

\* C12: for each lane segment [start_s, end_s] of the path and each
\* lane-level overlap [a, b] with a < end_s and b > start_s, the recorded
\* fragment is [max(a, start_s) + off, min(b, end_s) + off], off being the
\* path arclength at which the lane segment begins minus start_s; every
\* recorded fragment has start < end and lies within [0, path length].
C12_FragmentsInPathCoordinates ==
  Ready => \A kind \in OverlapKinds : FragmentsInPathCoordinates(kind)

\* with a lane segment for every pair of consecutive points the fragments
\* are in path coordinates
C12_OnLaneThroughout ==
  (Ready /\ PairsOnLane = 0..(path.num_segments_ - 1))
    => \A kind \in OverlapKinds : FragmentsInPathCoordinates(kind)

(***************************************************************************)
(* OverlapWith and the width.                                              *)
(***************************************************************************)
Overlapped == Ready /\ call.op = "OverlapWith"

\* C13: with the approximation or without, for every box and all widths
\* w1 < w2, OverlapWith(box, w1) true implies OverlapWith(box, w2) true.
C13_OverlapMonotone ==
  (Overlapped /\ call.ret) =>
    \A w2 \in Widths :
      w2 > call.width => OverlapWith(path, call.box, w2)

\* a box of some extent overlaps at the width asked, though not at width 0,
\* and there are wider widths to ask; once with the approximation and once
\* without
C13_Witness ==
  /\ Overlapped
  /\ call.ret
  /\ call.box.half > 0
  /\ call.width > 0
  /\ path.use_path_approximation_
  /\ path.num_segments_ >= 2
  /\ ~OverlapWith(path, call.box, 0)
  /\ \E w2 \in Widths : w2 > call.width

(***************************************************************************)
(* The lane-segment tables.                                                *)
(***************************************************************************)
\* points i and i + 1 have waypoints on the lane of the segment, at its
\* start_s and end_s, the first before the second
JoinsPair(lane_segment, i) ==
  /\ lane_segment.lane # NullLane
  /\ lane_segment.start_s < lane_segment.end_s
  /\ \E a \in DOMAIN path_points[i].lane_waypoints :
       path_points[i].lane_waypoints[a] =
         LaneWaypoint(lane_segment.lane, lane_segment.start_s)
  /\ \E b \in DOMAIN path_points[i + 1].lane_waypoints :
       path_points[i + 1].lane_waypoints[b] =
         LaneWaypoint(lane_segment.lane, lane_segment.end_s)

\* points i and i + 1 have a lane in common, the first earlier on it
HasCommonLane(i) ==
  \E a \in DOMAIN path_points[i].lane_waypoints,
     b \in DOMAIN path_points[i + 1].lane_waypoints :
    /\ path_points[i].lane_waypoints[a].lane =
         path_points[i + 1].lane_waypoints[b].lane
    /\ path_points[i].lane_waypoints[a].s < path_points[i + 1].lane_waypoints[b].s

\* table has one entry for each pair of consecutive points, a null segment
\* where the pair has no common lane
OneEntryPerPair(table) ==
  /\ DOMAIN table = 0..(path.num_points_ - 2)
  /\ \A i \in DOMAIN table :
       IF HasCommonLane(i) THEN JoinsPair(table[i], i)
       ELSE table[i] = NullLaneSegment

\* the k-th pair, counted from 0, among those with a lane segment
NthPairOnLane(k) ==
  CHOOSE i \in PairsOnLane : Cardinality({j \in PairsOnLane : j < i}) = k

\* C14 as stated: after construction without supplied lane segments,
\* lane_segments_ has exactly one entry for each pair of consecutive points
\* (num_points - 1 entries), a null-lane entry where no common lane was
\* found, entry i describing the pair (point i, point i + 1).
C14_OnePerPair == Ready => OneEntryPerPair(path.lane_segments_)

\* C14, amended: lane_segments_to_next_point_ has exactly one entry for each
\* pair of consecutive points, null where no common lane was found, while
\* lane_segments_ holds only the segments found, in path order: one entry
\* for each pair with a common lane and none that is null.
C14_FoundSegmentsOnly ==
  Ready =>
    /\ OneEntryPerPair(path.lane_segments_to_next_point_)
    /\ DOMAIN path.lane_segments_ = 0..(Cardinality(PairsOnLane) - 1)
    /\ \A k \in DOMAIN path.lane_segments_ :
         path.lane_segments_[k] =
           path.lane_segments_to_next_point_[NthPairOnLane(k)]

\* a path of three points whose first pair has no common lane and whose
\* second pair has one
C14_Witness ==
  /\ Ready
  /\ path.num_points_ = 3
  /\ ~HasCommonLane(0)
  /\ HasCommonLane(1)
  /\ Size(path.lane_segments_) = 1

(***************************************************************************)
(* GetIndexFromS.                                                          *)
(***************************************************************************)
Indexed == Ready /\ call.op = "GetIndexFromS"

\* the greatest point index whose accumulated_s_ is at most s
GreatestIndexAt(s) ==
  CHOOSE id \in DOMAIN path.accumulated_s_ :
    /\ path.accumulated_s_[id] <= s
    /\ \A k \in DOMAIN path.accumulated_s_ :
         path.accumulated_s_[k] <= s => k <= id

\* the window GetIndexFromS takes from last_point_index_ for sample_id
WindowLow(sample_id) == path.last_point_index_[sample_id]
WindowHigh(sample_id) ==
  IF sample_id + 1 < path.num_sample_points_
  THEN Min(path.num_points_, path.last_point_index_[sample_id + 1] + 1)
  ELSE path.num_points_

\* the sample of s is in last_point_index_, and the window taken for it is
\* within the points and holds id
WindowHolds(sample_id, id) ==
  /\ sample_id \in DOMAIN path.last_point_index_
  /\ 0 <= WindowLow(sample_id)
  /\ WindowLow(sample_id) <= id
  /\ id < WindowHigh(sample_id)
  /\ WindowHigh(sample_id) <= path.num_points_

\* C15: GetIndexFromS(s) returns (0, 0) for s <= 0 and (num_points - 1, 0)
\* for s >= length; for 0 < s < length it returns (id, offset), id the
\* greatest point index with accumulated_s[id] <= s and offset = s -
\* accumulated_s[id] >= 0; the window taken from the sample table holds that
\* index and no table is read out of bounds.
C15_IndexFromS ==
  Indexed =>
    IF call.s <= 0 THEN call.ret = InterpolatedIndex(0, 0)
    ELSE IF call.s >= path.length_
    THEN call.ret = InterpolatedIndex(path.num_points_ - 1, 0)
    ELSE /\ call.ret.id = GreatestIndexAt(call.s)
         /\ call.ret.offset = call.s - path.accumulated_s_[call.ret.id]
         /\ call.ret.offset >= 0
         /\ WindowHolds(call.s \div kSampleDistance, GreatestIndexAt(call.s))

\* an s inside the path, exactly at the accumulated_s_ of two coincident
\* points, found by a window of more than one index
C15_Witness ==
  /\ Indexed
  /\ 0 < call.s /\ call.s < path.length_
  /\ call.ret.id >= 2
  /\ call.ret.offset = 0
  /\ path.accumulated_s_[call.ret.id - 1] = call.s
  /\ WindowLow(call.s \div kSampleDistance) < call.ret.id

(***************************************************************************)
(* The simplified polyline of the PathApproximation.                       *)
(***************************************************************************)
\* InitDilute has returned
Approximated == phase \in {"diluted", "ready"} /\ path.use_path_approximation_

\* original point k is within the tolerance of the chord from point a to
\* point b
WithinOfChord(a, b, k) ==
  SegDistanceSquareTo(LineSegment2d(path_points[a], path_points[b]),
                      path_points[k])
    <= path.approximation_.max_sqr_error_

\* every original point strictly between a and b is within the tolerance of
\* the chord a-b
ChordWithin(a, b) == \A k \in (a + 1)..(b - 1) : WithinOfChord(a, b, k)

\* C16: after InitDilute with tolerance eps, for consecutive retained
\* indices (a, b) of original_ids_ every original point strictly between a
\* and b is within eps of the chord from a to b, and the
\* max_error_per_segment_ stored for the chord is at most eps.
C16_ChordsWithinTolerance ==
  Approximated =>
    \A i \in 0..(path.approximation_.num_points_ - 2) :
      /\ ChordWithin(path.approximation_.original_ids_[i],
                     path.approximation_.original_ids_[i + 1])
      /\ path.approximation_.max_error_per_segment_[i]
           <= path.approximation_.max_error_

\* a chord that passes over original points at some distance from it, on a
\* path where another point was retained in between
C16_Witness ==
  /\ Approximated
  /\ path.approximation_.num_points_ >= 3
  /\ \E i \in 0..(path.approximation_.num_points_ - 2) :
       /\ path.approximation_.original_ids_[i + 1]
            > path.approximation_.original_ids_[i] + 1
       /\ path.approximation_.max_error_per_segment_[i] > 0

\* C17: in each advance of InitDilute from a retained index a, the next
\* retained index b is the furthest original index such that all points
\* strictly between a and b are within tolerance of the chord a-b: no
\* index c > b satisfies is_within_max_error(a, c).
C17_FurthestWithin ==
  Approximated =>
    \A i \in 0..(path.approximation_.num_points_ - 2) :
      /\ ChordWithin(path.approximation_.original_ids_[i],
                     path.approximation_.original_ids_[i + 1])
      /\ \A c \in (path.approximation_.original_ids_[i + 1] + 1)
                    ..(path.num_points_ - 1) :
           ~ChordWithin(path.approximation_.original_ids_[i], c)

\* C18: for every Path of n >= 2 points InitDilute ends with original_ids_
\* a strictly increasing sequence of original point indices, the first 0
\* and the last n - 1.
C18_IdsIncreasing ==
  Approximated =>
    /\ path.approximation_.num_points_
         = Size(path.approximation_.original_ids_)
    /\ path.approximation_.num_points_ >= 2
    /\ path.approximation_.original_ids_[0] = 0
    /\ Back(path.approximation_.original_ids_) = path.num_points_ - 1
    /\ \A i \in 0..(path.approximation_.num_points_ - 2) :
         path.approximation_.original_ids_[i]
           < path.approximation_.original_ids_[i + 1]

\* a path of five points simplified to first, one interior and last point,
\* by one advance over a single point and one over more
C18_Witness ==
  /\ Approximated
  /\ path.num_points_ = 5
  /\ path.approximation_.num_points_ = 3
  /\ path.approximation_.original_ids_[1] \in {1, 3}

(***************************************************************************)
(* GetProjection without the approximation: the nearest segment.           *)
(***************************************************************************)
\* GetProjection was asked with all three output pointers on a Path without
\* approximation
Scanned ==
  /\ Ready
  /\ call.op = "GetProjection"
  /\ call.nulls = {}
  /\ ~path.use_path_approximation_

\* the least distance from the query point to a segment of the path
LeastDistance ==
  SetMin({SegDistanceTo(path.segments_[i], call.point) :
            i \in DOMAIN path.segments_})

\* the first continue passes over segment i: the point projects before the
\* start of a segment that is not the first
SkippedBefore(i) ==
  i > 0 /\ ProjectOntoUnit(path.segments_[i], call.point) < 0

\* the second continue passes over segment i: the point projects past its
\* end and not before the start of the next segment
SkippedPast(i) ==
  /\ i + 1 < path.num_segments_
  /\ ProjectOntoUnit(path.segments_[i], call.point) > path.segments_[i].length
  /\ InnerProd(path.segments_[i + 1].unit_direction,
               call.point.x - path.segments_[i + 1].start.x,
               call.point.y - path.segments_[i + 1].start.y) >= 0

\* C19: on a Path without approximation GetProjection returns true for every
\* query point, with a finite distance that is the least of the distances
\* from the point to the segments: the two continues never discard every
\* segment, nor the distance of the nearest one.
C19_NearestSegmentFound ==
  Scanned =>
    /\ call.ret
    /\ call.out.min_distance < Infinity
    /\ call.out.min_distance = LeastDistance

\* the least distance is that of a segment the second continue passes
\* over, and is found on the segment after it, which turns off the first
C19_Witness ==
  /\ Scanned
  /\ call.ret
  /\ call.out.min_distance = LeastDistance
  /\ path.num_segments_ = 2
  /\ path.segments_[1].length > 0
  /\ path.segments_[1].unit_direction # path.segments_[0].unit_direction
  /\ \E i \in DOMAIN path.segments_ :
       /\ SkippedPast(i)
       /\ SegDistanceTo(path.segments_[i], call.point) = LeastDistance

====
